---- MODULE Spec2Model ----
(***************************************************************************)
(* A model of sdgen (src/src/sdgen/model.py): the fixed-width integer      *)
(* kinds, the derived data-structure model with its native-tree / JSON /   *)
(* YAML / XML conversions, and the XSD emitter.                            *)
(***************************************************************************)
EXTENDS Integers, Sequences, FiniteSets, TLC

VARIABLES
    kind,           \* NewInt: the fixed-width class being constructed
    arg,            \* NewInt: the argument handed to the constructor
    res,            \* NewInt: the outcome of the constructor call
    schema,         \* the record graph (pydantic BaseModel classes)
    data,           \* the native tree the input was written from
    root,           \* the record the derived model class was made from
    inst,           \* the instance of the derived model that was serialised
    doc,            \* the document at hand: [fmt, body]
    parsed,         \* the outcome of the last from_* call
    xsd,            \* the outcome of the last to_xsd call
    complex_types,  \* to_xsd's dict of complexType elements (insertion order)
    lang,           \* the language adapter at hand
    ann,            \* the annotation handed to the adapter's type mapping
    typ,            \* the outcome of the last type-mapping call
    code,           \* the outcome of the last generate_definition call
    cache,          \* functools.cache of DataStructureModel: key -> class
    classes,        \* the derived classes created so far, in order
    calls,          \* the calls of DataStructureModel that returned
    outputs         \* what the generation calls so far returned: [by, of, out]

emitVars == <<lang, ann, typ, code, outputs>>

cacheVars == <<cache, classes, calls>>

vars == <<kind, arg, res, schema, data, root, inst, doc, parsed, xsd,
          complex_types, lang, ann, typ, code, cache, classes, calls, outputs>>

\* no language adapter is in use
NoEmit ==
    /\ lang = "none" /\ ann = <<>>
    /\ typ = [ok |-> FALSE, err |-> "not called", val |-> <<>>]
    /\ code = [ok |-> FALSE, err |-> "not called", val |-> <<>>]
    /\ outputs = {}

\* DataStructureModel's cache is not looked at
NoCache == cache = {} /\ classes = <<>> /\ calls = {}

(***************************************************************************)
(* Python integers are unbounded.  A value is kept as two limbs,           *)
(* hi * 65536 + lo with 0 <= lo < 65536, so that 4294967296 and            *)
(* -2147483649 are representable.                                          *)
(***************************************************************************)
Base == 256 * 256

Big(hi, lo) == [hi |-> hi, lo |-> lo]

FromInt(n) == Big(n \div Base, n % Base)

BigLe(a, b) == a.hi < b.hi \/ (a.hi = b.hi /\ a.lo <= b.lo)

BigAdd(a, d) == Big(a.hi + ((a.lo + d) \div Base), (a.lo + d) % Base)

BigNeg(a) == IF a.lo = 0 THEN Big(-a.hi, 0) ELSE Big(-a.hi - 1, Base - a.lo)

Kinds == {"i8", "u8", "i16", "u16", "i32", "u32"}

\* the literal on the left of "<= value" in each __new__
RangeMin(k) ==
    CASE k = "i8"  -> FromInt(-128)
      [] k = "u8"  -> FromInt(0)
      [] k = "i16" -> FromInt(-32768)
      [] k = "u16" -> FromInt(0)
      [] k = "i32" -> Big(-32768, 0)          \* -2147483648
      [] k = "u32" -> FromInt(0)

\* the literal on the right of "value <=" in each __new__
RangeMax(k) ==
    CASE k = "i8"  -> FromInt(127)
      [] k = "u8"  -> FromInt(255)
      [] k = "i16" -> FromInt(32767)
      [] k = "u16" -> FromInt(65535)
      [] k = "i32" -> FromInt(2147483647)
      [] k = "u32" -> Big(65535, 65535)       \* 4294967295

ValueError == [ok |-> FALSE, cls |-> "ValueError", v |-> Big(0, 0)]

\* the range test of K.__new__, with the comparison taken the wrong way round
\* at the upper end (an off-by-one: value < max)
InRangeStrictMax(k, value) ==
    BigLe(RangeMin(k), value) /\ BigLe(BigAdd(value, 1), RangeMax(k))

\* "min <= value <= max" of K.__new__
InRange(k, value) == BigLe(RangeMin(k), value) /\ BigLe(value, RangeMax(k))

\* K.__new__(cls, value): raise ValueError outside the range, else
\* int.__new__(cls, value)
NewInt(k, value) ==
    IF ~InRange(k, value) THEN ValueError
    ELSE [ok |-> TRUE, cls |-> k, v |-> value]

(***************************************************************************)
(* Type annotations.  An annotation is the sequence of its wrappers        *)
(* followed by its base: <<"opt", "list", "r2">> is Optional[List[r2]].    *)
(* The base is a primitive class or a record (a BaseModel class, named by  *)
(* its identity, not by its __name__).                                     *)
(***************************************************************************)
RecIds == {"r1", "r2", "r3"}

IntClasses == {"int"} \cup Kinds

PrimClasses == {"str", "float", "bool"} \cup IntClasses

\* utils.is_list_type
is_list_type(annotation) == annotation[1] = "list"

\* utils.is_optional_type
is_optional_type(annotation) == annotation[1] = "opt"

\* utils.unwrap_list
unwrap_list(annotation) ==
    IF is_list_type(annotation) THEN Tail(annotation) ELSE annotation

\* utils.unwrap_optional
unwrap_optional(annotation) ==
    IF is_optional_type(annotation) THEN Tail(annotation) ELSE annotation

\* isinstance(t, type) and issubclass(t, BaseModel)
IsBaseModel(t) == Len(t) = 1 /\ t[1] \in RecIds

\* isinstance(t, type)
IsType(t) == Len(t) = 1

\* m.__name__ and m.model_fields of the record m of the graph S
NameOf(S, m) == S[m].name

FieldsOf(S, m) == S[m].fields

(***************************************************************************)
(* to_xsd                                                                  *)
(***************************************************************************)
Absent == "(absent)"

RecursionLimit == 5

XsdElement(name, type, minOccurs, maxOccurs) ==
    [name |-> name, type |-> type, minOccurs |-> minOccurs,
     maxOccurs |-> maxOccurs]

\* to_xsd._pytype_to_xsd
PyTypeToXsd(annotation) ==
    IF IsType(annotation) /\ annotation[1] \in IntClasses THEN "xs:int"
    ELSE IF annotation = <<"float">> THEN "xs:double"
    ELSE IF annotation = <<"str">> THEN "xs:string"
    ELSE "xs:string"

\* f"{m.__name__}Type"
TypeName(name) == <<name, "Type">>

\* a lookup that never finds the key
KeyIndexNever(cts, key) == 0

\* the position of key in the dict complex_types, 0 when it is not a key
KeyIndex(cts, key) ==
    IF \E i \in 1..Len(cts) : cts[i].key = key
    THEN CHOOSE i \in 1..Len(cts) : cts[i].key = key
    ELSE 0

\* "m.__name__ in complex_types"
InComplexTypes(cts, key) == KeyIndex(cts, key) # 0

\* a store that adds an entry even when the key is already there
SetComplexTypeAppend(cts, key, ct) == Append(cts, [key |-> key, ct |-> ct])

\* "complex_types[m.__name__] = ct": a dict keeps the position of a key
\* that is already there
SetComplexType(cts, key, ct) ==
    IF KeyIndex(cts, key) # 0
    THEN [cts EXCEPT ![KeyIndex(cts, key)] = [key |-> key, ct |-> ct]]
    ELSE Append(cts, [key |-> key, ct |-> ct])

\* the Optional test skipped: the annotation is used as declared
UnwrappedNot(annotation) == annotation

\* "if is_optional_type(annotation): annotation = unwrap_optional(annotation)"
Unwrapped(annotation) ==
    IF is_optional_type(annotation)
    THEN unwrap_optional(annotation) ELSE annotation

\* which branch of process_model's loop body a field takes
FieldShape(annotation) ==
    IF is_list_type(Unwrapped(annotation)) THEN "list"
    ELSE IF IsBaseModel(Unwrapped(annotation)) THEN "model"
    ELSE "other"

\* a traversal that does not descend into the items of a list
FieldTargetNoList(annotation) ==
    IF FieldShape(annotation) = "model" THEN Unwrapped(annotation)[1] ELSE ""

\* the record process_model recurses into for a field, "" when none
FieldTarget(annotation) ==
    LET a == Unwrapped(annotation)
    IN  IF FieldShape(annotation) = "list"
        THEN (IF IsBaseModel(unwrap_list(a)) THEN unwrap_list(a)[1] ELSE "")
        ELSE IF FieldShape(annotation) = "model" THEN a[1]
        ELSE ""

\* the element declaration with maxOccurs left out of the list branch
FieldElementNoMax(S, name, annotation) ==
    LET a == Unwrapped(annotation)
        item_type == unwrap_list(a)
    IN  IF FieldShape(annotation) = "list"
        THEN XsdElement(name,
                 IF IsBaseModel(item_type)
                 THEN TypeName(NameOf(S, item_type[1]))
                 ELSE <<PyTypeToXsd(item_type)>>,
                 "0", Absent)
        ELSE XsdElement(name,
                 IF FieldShape(annotation) = "model"
                 THEN TypeName(NameOf(S, a[1]))
                 ELSE <<PyTypeToXsd(a)>>,
                 "0", Absent)

\* the SubElement(seq, "element", ...) of the four branches of the loop body
FieldElement(S, name, annotation) ==
    LET a == Unwrapped(annotation)
        item_type == unwrap_list(a)
    IN  IF FieldShape(annotation) = "list"
        THEN XsdElement(name,
                 IF IsBaseModel(item_type)
                 THEN TypeName(NameOf(S, item_type[1]))
                 ELSE <<PyTypeToXsd(item_type)>>,
                 "0", "unbounded")
        ELSE XsdElement(name,
                 IF FieldShape(annotation) = "model"
                 THEN TypeName(NameOf(S, a[1]))
                 ELSE <<PyTypeToXsd(a)>>,
                 "0", Absent)

RECURSIVE process_model(_, _, _, _)
RECURSIVE process_fields(_, _, _, _, _, _)

\* the loop "for name, field in m.model_fields.items()" from field i on;
\* st is [cts, overflow], seq the element declarations made so far
process_fields(S, m, i, st, seq, depth) ==
    IF i > Len(FieldsOf(S, m)) \/ st.overflow
    THEN [cts |-> st.cts, overflow |-> st.overflow, seq |-> seq]
    ELSE LET f == FieldsOf(S, m)[i]
             target == FieldTarget(f.type)
             st2 == IF target = "" THEN st
                    ELSE process_model(S, target, st, depth + 1)
         IN  process_fields(S, m, i + 1, st2,
                 Append(seq, FieldElement(S, f.name, f.type)), depth)

\* to_xsd.process_model(m); a complexType carries, besides its name and its
\* sequence, the record it was built from ("of", not part of the output
\* text); depth counts the frames of the recursion, and
\* overflow is the RecursionError the interpreter raises at its limit
process_model(S, m, st, depth) ==
    IF st.overflow THEN st
    ELSE IF depth > RecursionLimit THEN [st EXCEPT !.overflow = TRUE]
    ELSE IF InComplexTypes(st.cts, NameOf(S, m)) THEN st
    ELSE LET r == process_fields(S, m, 1, st, <<>>, depth)
             ct == [name |-> TypeName(NameOf(S, m)), seq |-> r.seq, of |-> m]
         IN  IF r.overflow THEN [cts |-> r.cts, overflow |-> TRUE]
             ELSE [cts |-> SetComplexType(r.cts, NameOf(S, m), ct),
                   overflow |-> FALSE]

\* a dict that outlives the call
StartDictKept(old) == old

\* "complex_types = {}" at the start of every to_xsd call
StartDict(old) == <<>>

NoXsd == [ok |-> FALSE, err |-> "not called",
          top |-> XsdElement("", <<>>, Absent, Absent), cts |-> <<>>,
          dict |-> <<>>]

\* "for ct in complex_types.values(): schema.append(ct)"
Values(cts) == [i \in 1..Len(cts) |-> cts[i].ct]

\* to_xsd of the derived class of record m: the top-level element, then
\* the complex types in the dict's order
to_xsd(S, m, old) ==
    LET r == process_model(S, m, [cts |-> StartDict(old), overflow |-> FALSE], 1)
    IN  IF r.overflow
        THEN [ok |-> FALSE, err |-> "RecursionError",
              top |-> XsdElement(NameOf(S, m), TypeName(NameOf(S, m)),
                                 Absent, Absent),
              cts |-> <<>>, dict |-> r.cts]
        ELSE [ok |-> TRUE, err |-> "",
              top |-> XsdElement(NameOf(S, m), TypeName(NameOf(S, m)),
                                 Absent, Absent),
              cts |-> Values(r.cts), dict |-> r.cts]


(***************************************************************************)
(* The record graphs to_xsd is run on.  The root r1 has 1..MaxFields       *)
(* fields of any of XsdRootTypes; r2 and r3 are drawn from a few shapes,   *)
(* among them records that refer to themselves or back to the root, and    *)
(* r3 may carry the same __name__ as r2.                                   *)
(***************************************************************************)
MaxFields == 2

FieldNames == <<"a", "b", "c", "d", "e">>

\* fields named by position; an Optional field is declared "= None", as in
\* the Person and Address models of the tests
MkFields(types) ==
    [i \in 1..Len(types) |->
        [name |-> FieldNames[i], type |-> types[i],
         default |-> IF types[i][1] = "opt" THEN "None" ELSE "required"]]

SeqsUpTo(T, n) == UNION {[1..k -> T] : k \in 1..n}

XsdRootTypes ==
    { <<"str">>, <<"u16">>, <<"r2">>, <<"r3">>,
      <<"list", "int">>, <<"list", "r2">>,
      <<"opt", "float">>, <<"opt", "r3">>, <<"opt", "list", "r3">>,
      <<"opt", "r1">> }

XsdR2Shapes ==
    { <<<<"str">>>>, <<<<"r3">>>>, <<<<"int">>, <<"list", "r3">>>>,
      <<<<"opt", "r2">>>>, <<<<"r1">>>> }

XsdR3Shapes ==
    { <<<<"str">>>>, <<<<"float">>, <<"opt", "list", "str">>>>,
      <<<<"list", "r3">>>> }

XsdSchemas ==
    { [r \in RecIds |->
         IF r = "r1" THEN [name |-> "Person", fields |-> MkFields(t1)]
         ELSE IF r = "r2" THEN [name |-> "Address", fields |-> MkFields(t2)]
         ELSE [name |-> n3, fields |-> MkFields(t3)]] :
      t1 \in SeqsUpTo(XsdRootTypes, MaxFields), t2 \in XsdR2Shapes,
      t3 \in XsdR3Shapes, n3 \in {"Pet", "Address"} }

NoBig == Big(0, 0)

NoVal == [k |-> "none", cls |-> "NoneType", i |-> NoBig, s |-> <<>>, xs |-> <<>>]

NoDoc == [fmt |-> "none", by |-> "nobody", body |-> NoVal]

NoRes == [ok |-> FALSE, err |-> "not called", val |-> NoVal]

NoIntRes == [ok |-> FALSE, cls |-> "not called", v |-> NoBig]

InitXsd ==
    /\ schema \in XsdSchemas
    /\ root = "r1"
    /\ xsd = NoXsd
    /\ complex_types = <<>>
    /\ NoEmit /\ NoCache
    /\ kind = "i8" /\ arg = NoBig /\ res = NoIntRes
    /\ data = NoVal /\ inst = NoVal /\ doc = NoDoc /\ parsed = NoRes

\* DataStructureModel(m).to_xsd()
ToXsd(m) ==
    /\ root' = m
    /\ xsd' = to_xsd(schema, m, complex_types)
    /\ complex_types' = xsd'.dict
    /\ UNCHANGED <<kind, arg, res, schema, data, inst, doc, parsed>>
    /\ UNCHANGED <<emitVars, cacheVars>>

NextXsd == \E m \in RecIds : ToXsd(m)

SpecXsd == InitXsd /\ [][NextXsd]_vars


(***************************************************************************)
(* The record graph as the claims speak of it.                             *)
(***************************************************************************)
BaseOf(annotation) == annotation[Len(annotation)]

\* the records the fields of m refer to, bare or inside Optional / List
Targets(S, m) ==
    {BaseOf(FieldsOf(S, m)[i].type) : i \in 1..Len(FieldsOf(S, m))} \cap RecIds

RECURSIVE Closure(_, _)
Closure(S, set) ==
    LET next == set \cup UNION {Targets(S, m) : m \in set}
    IN  IF next = set THEN set ELSE Closure(S, next)

\* the records reachable from m, m included
Reachable(S, m) == Closure(S, {m})

\* no record reachable from m can reach itself
Acyclic(S, m) ==
    \A n \in Reachable(S, m) : n \notin Closure(S, Targets(S, n))

\* the places (record, field) among the records reachable from m that
\* refer to the record n
RefsTo(S, m, n) ==
    {<<p, i>> \in Reachable(S, m) \X (1..(MaxFields + 1)) :
        /\ i <= Len(FieldsOf(S, p))
        /\ BaseOf(FieldsOf(S, p)[i].type) = n}

\* the complexType declarations of the output that bear the name nm
Declared(out, nm) == {i \in 1..Len(out.cts) : out.cts[i].name = nm}

XsdDone == xsd.ok /\ Acyclic(schema, root)

\* C3: in the output of to_xsd on an acyclic record graph, a record that is
\* referenced from two or more places has exactly one complexType
\* declaration.
C3_SharedRecordDeclaredOnce ==
    XsdDone =>
        \A n \in Reachable(schema, root) :
            Cardinality(RefsTo(schema, root, n)) >= 2 =>
                Cardinality(Declared(xsd, TypeName(NameOf(schema, n)))) = 1

\* a record referenced from two different parents, once inside a list, has
\* been emitted
C3_Witness ==
    /\ XsdDone
    /\ \E n \in Reachable(schema, root) :
          \E x, y \in RefsTo(schema, root, n) :
              /\ x[1] # y[1]
              /\ FieldsOf(schema, x[1])[x[2]].type[1] = "list"
              /\ Cardinality(Declared(xsd, TypeName(NameOf(schema, n)))) = 1

\* a record reachable from m that has a field of its own type
SelfReferential(S, m) == \E n \in Reachable(S, m) : n \in Targets(S, n)

\* C4: to_xsd terminates on a self-referential schema: the memoisation
\* stops the traversal, which never runs into the recursion limit.
C4_SelfReferenceTerminates ==
    (xsd.err # "not called" /\ SelfReferential(schema, root))
        => xsd.err # "RecursionError"

\* C5: for an acyclic graph the output has the global element named after
\* the root and typed <root>Type, exactly one complexType <N>Type for every
\* reachable record N and none for any other record, and every complexType
\* lists one element per field of its record, by name, in field order.
C5_XsdShape ==
    XsdDone =>
        /\ xsd.top.name = NameOf(schema, root)
        /\ xsd.top.type = <<NameOf(schema, root), "Type">>
        /\ \A n \in Reachable(schema, root) :
              Cardinality(Declared(xsd, <<NameOf(schema, n), "Type">>)) = 1
        /\ \A i \in 1..Len(xsd.cts) :
              LET ct == xsd.cts[i]
                  fs == FieldsOf(schema, ct.of)
              IN  /\ ct.of \in Reachable(schema, root)
                  /\ ct.name = <<NameOf(schema, ct.of), "Type">>
                  /\ Len(ct.seq) = Len(fs)
                  /\ \A j \in 1..Len(fs) : ct.seq[j].name = fs[j].name

\* an acyclic graph of three records, one of them reached only through a
\* list, has been emitted from a root with more than one field
C5_Witness ==
    /\ XsdDone
    /\ Reachable(schema, root) = RecIds
    /\ Len(xsd.cts) = 3
    /\ Len(FieldsOf(schema, root)) > 1
    /\ \E n \in RecIds : \A x \in RefsTo(schema, root, n) :
          "list" \in {FieldsOf(schema, x[1])[x[2]].type[k] :
                         k \in 1..Len(FieldsOf(schema, x[1])[x[2]].type)}
    /\ \E n \in RecIds : RefsTo(schema, root, n) # {}

IsListField(t) == t[1] = "list" \/ (t[1] = "opt" /\ Len(t) > 1 /\ t[2] = "list")

IsOptionalField(t) == t[1] = "opt"

\* the XSD type the claims expect for an element type
ExpectedXsdType(S, base) ==
    IF base \in RecIds THEN <<NameOf(S, base), "Type">>
    ELSE IF base \in IntClasses THEN <<"xs:int">>
    ELSE IF base = "float" THEN <<"xs:double">>
    ELSE <<"xs:string">>

\* C6: a list field (List(X) or Optional(List(X))) is declared with
\* minOccurs=0, maxOccurs=unbounded and the XSD type of X; an Optional
\* field that is no list is declared with minOccurs=0 and no maxOccurs.
C6_ListAndOptionalOccurs ==
    xsd.ok =>
        \A i \in 1..Len(xsd.cts) :
            LET ct == xsd.cts[i]
                fs == FieldsOf(schema, ct.of)
            IN  \A j \in 1..Len(fs) :
                    /\ IsListField(fs[j].type) =>
                          /\ ct.seq[j].minOccurs = "0"
                          /\ ct.seq[j].maxOccurs = "unbounded"
                          /\ ct.seq[j].type =
                                ExpectedXsdType(schema, BaseOf(fs[j].type))
                    /\ (IsOptionalField(fs[j].type) /\ ~IsListField(fs[j].type)) =>
                          /\ ct.seq[j].minOccurs = "0"
                          /\ ct.seq[j].maxOccurs = Absent

\* the output declares an Optional list of records, an Optional list of
\* primitives and an Optional field that is no list
C6_Witness ==
    /\ xsd.ok
    /\ \E i \in 1..Len(xsd.cts) : \E j \in 1..Len(xsd.cts[i].seq) :
          /\ FieldsOf(schema, xsd.cts[i].of)[j].type = <<"opt", "list", "r3">>
          /\ xsd.cts[i].seq[j].maxOccurs = "unbounded"
    /\ \E i \in 1..Len(xsd.cts) : \E j \in 1..Len(xsd.cts[i].seq) :
          /\ FieldsOf(schema, xsd.cts[i].of)[j].type = <<"opt", "list", "str">>
          /\ xsd.cts[i].seq[j].type = <<"xs:string">>
    /\ \E i \in 1..Len(xsd.cts) : \E j \in 1..Len(xsd.cts[i].seq) :
          /\ FieldsOf(schema, xsd.cts[i].of)[j].type = <<"opt", "float">>
          /\ xsd.cts[i].seq[j].maxOccurs = Absent


(***************************************************************************)
(* Constructing fixed-width values: every kind on every value within       *)
(* Delta of a boundary of any kind.                                        *)
(***************************************************************************)
Delta == 2

Boundaries == {RangeMin(k) : k \in Kinds} \cup {RangeMax(k) : k \in Kinds}

IntArgs ==
    {BigAdd(b, d) : b \in Boundaries, d \in 0..Delta}
        \cup {BigAdd(b, -d) : b \in Boundaries, d \in 0..Delta}

InitInt ==
    /\ kind \in Kinds
    /\ arg \in IntArgs
    /\ res = NoIntRes
    /\ schema = [r \in RecIds |-> [name |-> "", fields |-> <<>>]]
    /\ root = "r1" /\ xsd = NoXsd /\ complex_types = <<>>
    /\ NoEmit /\ NoCache
    /\ data = NoVal /\ inst = NoVal /\ doc = NoDoc /\ parsed = NoRes

\* K(v) for the class K = kind and the value v = arg
Construct ==
    /\ res.cls = "not called"
    /\ res' = NewInt(kind, arg)
    /\ UNCHANGED <<kind, arg, schema, data, root, inst, doc, parsed, xsd,
                   complex_types>>
    /\ UNCHANGED <<emitVars, cacheVars>>

NextInt == Construct

SpecInt == InitInt /\ [][NextInt]_vars

\* the ranges as the claim gives them
ClaimedMin(k) ==
    CASE k = "i8" -> Big(-1, 65408) [] k = "i16" -> Big(-1, 32768)
      [] k = "i32" -> Big(-32768, 0) [] OTHER -> Big(0, 0)

ClaimedMax(k) ==
    CASE k = "i8" -> Big(0, 127) [] k = "u8" -> Big(0, 255)
      [] k = "i16" -> Big(0, 32767) [] k = "u16" -> Big(0, 65535)
      [] k = "i32" -> Big(32767, 65535) [] k = "u32" -> Big(65535, 65535)

\* C1: K(v) succeeds exactly when min <= v <= max, the value built is v
\* itself (never clamped) and of class K, and outside the range the call
\* fails with a ValueError.
C1_RangeChecked ==
    res.cls # "not called" =>
        IF BigLe(ClaimedMin(kind), arg) /\ BigLe(arg, ClaimedMax(kind))
        THEN res.ok /\ res.v = arg /\ res.cls = kind
        ELSE ~res.ok /\ res.cls = "ValueError"

\* u32 has been constructed at its maximum 4294967295
C1_Witness ==
    /\ kind = "u32" /\ arg = Big(65535, 65535)
    /\ res.ok /\ res.v = Big(65535, 65535)


(***************************************************************************)
(* Python values.  Every value is a record [k, cls, i, s, xs]:             *)
(*   None            k = "none"                                            *)
(*   int, i8 .. u32  k = "int",   cls the class, i the number              *)
(*   bool            k = "bool",  i = 0 or 1                               *)
(*   float           k = "float", i the number of halves (3 is 1.5)        *)
(*   str             k = "str",   s the characters                         *)
(*   list            k = "list",  xs the items                             *)
(*   dict            k = "dict",  xs the entries, each with cls = the key  *)
(*                                and xs = <<value>>                       *)
(*   an instance of DataStructureModel(m)                                  *)
(*                   k = "model", cls = m, xs the field values in order    *)
(***************************************************************************)
Val(k, cls, i, s, xs) == [k |-> k, cls |-> cls, i |-> i, s |-> s, xs |-> xs]

None == NoVal

PyInt(cls, n) == Val("int", cls, n, <<>>, <<>>)

PyBool(b) == Val("bool", "bool", IF b THEN Big(0, 1) ELSE Big(0, 0), <<>>, <<>>)

PyFloat(halves) == Val("float", "float", halves, <<>>, <<>>)

PyStr(text) == Val("str", "str", NoBig, text, <<>>)

PyList(items) == Val("list", "list", NoBig, <<>>, items)

PyDict(entries) == Val("dict", "dict", NoBig, <<>>, entries)

Entry(key, value) == Val("entry", key, NoBig, <<>>, <<value>>)

Model(m, values) == Val("model", m, NoBig, <<>>, values)

Ok(v) == [ok |-> TRUE, err |-> "", val |-> v]

Err(e) == [ok |-> FALSE, err |-> e, val |-> NoVal]

AllOk(rs) == \A i \in 1..Len(rs) : rs[i].ok

FirstErr(rs) == rs[CHOOSE i \in 1..Len(rs) : ~rs[i].ok /\ \A j \in 1..(i - 1) : rs[j].ok].err

Vals(rs) == [i \in 1..Len(rs) |-> rs[i].val]

(***************************************************************************)
(* str(x), int(text), float(text), bool(text): text is a sequence of       *)
(* characters.                                                             *)
(***************************************************************************)
Digits == <<"0", "1", "2", "3", "4", "5", "6", "7", "8", "9">>

DigitChars == {Digits[d] : d \in 1..10}

DigitOf(c) == (CHOOSE d \in 1..10 : Digits[d] = c) - 1

RECURSIVE NatToText(_)
NatToText(a) ==
    IF a.hi = 0 /\ a.lo < 10 THEN <<Digits[a.lo + 1]>>
    ELSE LET t == (a.hi % 10) * Base + a.lo
         IN  Append(NatToText(Big(a.hi \div 10, t \div 10)), Digits[(t % 10) + 1])

\* int.__str__
IntToText(a) ==
    IF a.hi < 0 THEN <<"-">> \o NatToText(BigNeg(a)) ELSE NatToText(a)

RECURSIVE TextToNat(_)
TextToNat(text) ==
    IF text = <<>> THEN Big(0, 0)
    ELSE LET a == TextToNat(SubSeq(text, 1, Len(text) - 1))
             t == a.lo * 10 + DigitOf(text[Len(text)])
         IN  Big(a.hi * 10 + (t \div Base), t % Base)

AllDigits(text) == text # <<>> /\ \A j \in 1..Len(text) : text[j] \in DigitChars

\* int(text) for a str
ParseInt(text) ==
    IF text # <<>> /\ text[1] = "-" /\ AllDigits(Tail(text))
    THEN Ok(PyInt("int", BigNeg(TextToNat(Tail(text)))))
    ELSE IF AllDigits(text) THEN Ok(PyInt("int", TextToNat(text)))
    ELSE Err("ValueError")

\* float.__repr__ of a number of halves
FloatToText(h) ==
    LET neg == h.hi < 0
        m == IF neg THEN BigNeg(h) ELSE h
        whole == Big(m.hi \div 2, ((m.hi % 2) * Base + m.lo) \div 2)
        frac == IF m.lo % 2 = 0 THEN "0" ELSE "5"
    IN  (IF neg THEN <<"-">> ELSE <<>>) \o NatToText(whole) \o <<".", frac>>

BigDouble(a) == Big(a.hi * 2 + ((a.lo * 2) \div Base), (a.lo * 2) % Base)

\* float(text) for a str, on the numbers that are whole or end in .0 or .5
ParseFloat(text) ==
    LET neg == text # <<>> /\ text[1] = "-"
        body == IF neg THEN Tail(text) ELSE text
        n == Len(body)
        dotted == n >= 3 /\ body[n - 1] = "." /\ body[n] \in {"0", "5"}
        whole == IF dotted THEN SubSeq(body, 1, n - 2) ELSE body
        halves == BigAdd(BigDouble(TextToNat(whole)),
                         IF dotted /\ body[n] = "5" THEN 1 ELSE 0)
    IN  IF ~AllDigits(whole) THEN Err("ValueError")
        ELSE Ok(PyFloat(IF neg THEN BigNeg(halves) ELSE halves))

TrueText == <<"T", "r", "u", "e">>

FalseText == <<"F", "a", "l", "s", "e">>

NoneText == <<"N", "o", "n", "e">>

\* what str() gives for an instance of a model: its field listing, which
\* no reader looks into
ReprText == <<"r", "e", "p", "r">>

\* str(value)
Str(v) ==
    CASE v.k = "int"   -> IntToText(v.i)
      [] v.k = "bool"  -> IF v.i.lo = 1 THEN TrueText ELSE FalseText
      [] v.k = "float" -> FloatToText(v.i)
      [] v.k = "str"   -> v.s
      [] v.k = "none"  -> NoneText
      [] OTHER         -> ReprText

\* the text of an element: None or a str
NoText == [none |-> TRUE, s |-> <<>>]

Text(s) == [none |-> FALSE, s |-> s]

\* int(value) as the validator and K.__new__ apply it to a Python value
IntOfValue(v) ==
    CASE v.k \in {"int", "bool"} -> Ok(PyInt("int", v.i))
      [] v.k = "str"   -> ParseInt(v.s)
      [] v.k = "float" -> Ok(PyInt("int",
                             LET m == IF v.i.hi < 0 THEN BigNeg(v.i) ELSE v.i
                                 q == Big(m.hi \div 2, ((m.hi % 2) * Base + m.lo) \div 2)
                             IN  IF v.i.hi < 0 THEN BigNeg(q) ELSE q))
      [] OTHER         -> Err("TypeError")

\* K(value) for a fixed-width class K and any Python value
NewKind(k, v) ==
    LET n == IntOfValue(v)
    IN  IF ~n.ok THEN n
        ELSE IF NewInt(k, n.val.i).ok THEN Ok(PyInt(k, n.val.i))
        ELSE Err("ValueError")

\* actual_type(text) of from_xml_tree, the text being None or a str
CallType(cls, text) ==
    CASE cls = "str" -> Ok(PyStr(IF text.none THEN NoneText ELSE text.s))
      [] cls = "bool" -> Ok(PyBool(~text.none /\ text.s # <<>>))
      [] cls = "int" -> IF text.none THEN Err("TypeError") ELSE ParseInt(text.s)
      [] cls = "float" -> IF text.none THEN Err("TypeError") ELSE ParseFloat(text.s)
      [] cls \in Kinds -> NewKind(cls, IF text.none THEN None ELSE PyStr(text.s))
      [] OTHER -> Err("TypeError")


(***************************************************************************)
(* The derived model class DataStructureModel(m): validation of a native   *)
(* tree (model_validate, also behind the constructor call that ends       *)
(* from_xml_tree) and model_dump.                                          *)
(***************************************************************************)
\* the entry of a dict under a key, as a sequence of zero or one values
Lookup(d, key) ==
    IF \E j \in 1..Len(d.xs) : d.xs[j].cls = key
    THEN <<d.xs[CHOOSE j \in 1..Len(d.xs) : d.xs[j].cls = key].xs[1]>>
    ELSE <<>>

\* a validator that hands on int(value) and never calls the class
SdgenIntValidatePlain(k, v) == IntOfValue(v)

\* _sdgenint.__get_pydantic_core_schema__.validate: v = int(value);
\* return cls(v)
SdgenIntValidate(k, v) ==
    IF IntOfValue(v).ok THEN NewKind(k, IntOfValue(v).val) ELSE IntOfValue(v)

RECURSIVE Validate(_, _, _)

\* validation of the value v against the annotation t of a field of the
\* derived class: Optional, List, a nested derived class, the validator of
\* _sdgenint.__get_pydantic_core_schema__, and the primitive classes
Validate(S, t, v) ==
    IF t[1] = "opt"
    THEN (IF v.k = "none" THEN Ok(None) ELSE Validate(S, Tail(t), v))
    ELSE IF t[1] = "list"
    THEN (IF v.k # "list" THEN Err("ValidationError")
          ELSE LET rs == [j \in 1..Len(v.xs) |-> Validate(S, Tail(t), v.xs[j])]
               IN  IF AllOk(rs) THEN Ok(PyList(Vals(rs)))
                   ELSE Err("ValidationError"))
    ELSE IF t[1] \in RecIds
    THEN (IF v.k = "model" /\ v.cls = t[1] THEN Ok(v)
          ELSE IF v.k # "dict" THEN Err("ValidationError")
          ELSE LET fs == FieldsOf(S, t[1])
                   rs == [j \in 1..Len(fs) |->
                            LET e == Lookup(v, fs[j].name)
                            IN  IF e # <<>> THEN Validate(S, fs[j].type, e[1])
                                ELSE IF fs[j].default = "None" THEN Ok(None)
                                ELSE Err("ValidationError")]
                   extra == \E j \in 1..Len(v.xs) :
                               \A f \in 1..Len(fs) : fs[f].name # v.xs[j].cls
               IN  IF extra \/ ~AllOk(rs) THEN Err("ValidationError")
                   ELSE Ok(Model(t[1], Vals(rs))))
    ELSE IF t[1] \in Kinds
    THEN (IF SdgenIntValidate(t[1], v).ok THEN SdgenIntValidate(t[1], v)
          ELSE Err("ValidationError"))
    ELSE IF t[1] = "int"
    THEN (IF v.k = "int" THEN Ok(PyInt("int", v.i)) ELSE Err("ValidationError"))
    ELSE IF t[1] = "float"
    THEN (IF v.k = "float" THEN Ok(v)
          ELSE IF v.k = "int" THEN Ok(PyFloat(BigDouble(v.i)))
          ELSE Err("ValidationError"))
    ELSE IF t[1] = "str"
    THEN (IF v.k = "str" THEN Ok(v) ELSE Err("ValidationError"))
    ELSE IF t[1] = "bool"
    THEN (IF v.k = "bool" THEN Ok(v) ELSE Err("ValidationError"))
    ELSE Err("ValidationError")

\* DataStructureModel(m).from_native_tree(data)
from_native_tree(S, m, tree) == Validate(S, <<m>>, tree)

RECURSIVE model_dump(_, _)

\* self.model_dump(): instances become dicts keyed by field name, lists are
\* dumped item by item, every other value is handed on as it is
model_dump(S, v) ==
    IF v.k = "model"
    THEN PyDict([j \in 1..Len(v.xs) |->
                   Entry(FieldsOf(S, v.cls)[j].name, model_dump(S, v.xs[j]))])
    ELSE IF v.k = "list"
    THEN PyList([j \in 1..Len(v.xs) |-> model_dump(S, v.xs[j])])
    ELSE v

\* self.to_native_tree()
to_native_tree(S, v) == model_dump(S, v)

(***************************************************************************)
(* JSON.  A JSON text is kept as its value tree; cls is the JSON type.     *)
(***************************************************************************)
RECURSIVE model_dump_json(_, _)

\* self.model_dump_json(): every int class is written as a number
model_dump_json(S, v) ==
    CASE v.k = "model" ->
            Val("dict", "object", NoBig, <<>>,
                [j \in 1..Len(v.xs) |->
                    Entry(FieldsOf(S, v.cls)[j].name, model_dump_json(S, v.xs[j]))])
      [] v.k = "list" ->
            Val("list", "array", NoBig, <<>>,
                [j \in 1..Len(v.xs) |-> model_dump_json(S, v.xs[j])])
      [] v.k = "int" -> Val("int", "number", v.i, <<>>, <<>>)
      [] v.k = "float" -> Val("float", "number", v.i, <<>>, <<>>)
      [] v.k = "bool" -> Val("bool", "boolean", v.i, <<>>, <<>>)
      [] v.k = "str" -> Val("str", "string", NoBig, v.s, <<>>)
      [] OTHER -> Val("none", "null", NoBig, <<>>, <<>>)

RECURSIVE json_loads(_)

\* json.loads: objects to dict, arrays to list, numbers to int or float
json_loads(j) ==
    CASE j.k = "dict" ->
            PyDict([n \in 1..Len(j.xs) |->
                      Entry(j.xs[n].cls, json_loads(j.xs[n].xs[1]))])
      [] j.k = "list" -> PyList([n \in 1..Len(j.xs) |-> json_loads(j.xs[n])])
      [] j.k = "int" -> PyInt("int", j.i)
      [] j.k = "float" -> PyFloat(j.i)
      [] j.k = "bool" -> PyBool(j.i.lo = 1)
      [] j.k = "str" -> PyStr(j.s)
      [] OTHER -> None

\* self.to_json()
to_json(S, v) == model_dump_json(S, v)

\* DataStructureModel(m).from_json(json_data)
from_json(S, m, j) == from_native_tree(S, m, json_loads(j))

(***************************************************************************)
(* YAML.  A YAML text is kept as its node tree; cls is the tag of a node.  *)
(* yaml.dump uses the full Dumper, from_yaml the safe loader.              *)
(***************************************************************************)
PythonObjectTag == "python/object/new"

RECURSIVE yaml_dump(_)

\* yaml.dump(data): the representer is chosen by the exact class of the
\* value; an instance of a subclass of int has no representer of its own
\* and is written by represent_object under a python/object/new tag
yaml_dump(v) ==
    CASE v.k = "dict" ->
            Val("dict", "map", NoBig, <<>>,
                [n \in 1..Len(v.xs) |-> Entry(v.xs[n].cls, yaml_dump(v.xs[n].xs[1]))])
      [] v.k = "list" ->
            Val("list", "seq", NoBig, <<>>, [n \in 1..Len(v.xs) |-> yaml_dump(v.xs[n])])
      [] v.k = "int" ->
            IF v.cls = "int" THEN Val("int", "int", v.i, <<>>, <<>>)
            ELSE Val("int", PythonObjectTag, v.i, <<v.cls>>, <<>>)
      [] v.k = "float" -> Val("float", "float", v.i, <<>>, <<>>)
      [] v.k = "bool" -> Val("bool", "bool", v.i, <<>>, <<>>)
      [] v.k = "str" -> Val("str", "str", NoBig, v.s, <<>>)
      [] OTHER -> Val("none", "null", NoBig, <<>>, <<>>)

RECURSIVE SafeTags(_)

\* the tags the safe constructor knows
SafeTags(y) ==
    /\ y.cls # PythonObjectTag
    /\ \A n \in 1..Len(y.xs) : SafeTags(y.xs[n])

RECURSIVE Construct_yaml(_)
Construct_yaml(y) ==
    CASE y.k = "dict" ->
            PyDict([n \in 1..Len(y.xs) |->
                      Entry(y.xs[n].cls, Construct_yaml(y.xs[n].xs[1]))])
      [] y.k = "list" -> PyList([n \in 1..Len(y.xs) |-> Construct_yaml(y.xs[n])])
      [] y.k = "int" -> PyInt("int", y.i)
      [] y.k = "float" -> PyFloat(y.i)
      [] y.k = "bool" -> PyBool(y.i.lo = 1)
      [] y.k = "str" -> PyStr(y.s)
      [] OTHER -> None

\* yaml.safe_load: ConstructorError on a tag it has no constructor for
yaml_safe_load(y) ==
    IF SafeTags(y) THEN Ok(Construct_yaml(y)) ELSE Err("ConstructorError")

\* self.to_yaml()
to_yaml(S, v) == yaml_dump(model_dump(S, v))

\* DataStructureModel(m).from_yaml(yaml_data)
from_yaml(S, m, y) ==
    IF yaml_safe_load(y).ok THEN from_native_tree(S, m, yaml_safe_load(y).val)
    ELSE yaml_safe_load(y)


(***************************************************************************)
(* XML.  An Element is [tag, text, kids]; its text is None or a str.       *)
(***************************************************************************)
\* an element that drops what is appended to it
ElementNoAppend(tag, text, kids) == [tag |-> tag, text |-> text, kids |-> <<>>]

Element(tag, text, kids) == [tag |-> tag, text |-> text, kids |-> kids]

\* the classes DataStructureModel creates; no annotation of a base model
\* names one of them (DataStructureModel rejects such a base model)
DerivedClasses == {"r1DataStructureModel", "r2DataStructureModel",
                   "r3DataStructureModel"}

\* isinstance(actual_type, type) and
\* issubclass(actual_type, DataStructureModelClass)
IsDataStructureModelClass(t) == Len(t) = 1 /\ t[1] \in DerivedClasses

\* a name no class has
ClassNameNone(S, t) == "(no class)"

\* t.__name__ for a class t
ClassName(S, t) ==
    IF ~IsType(t) THEN "List"
    ELSE IF t[1] \in RecIds THEN NameOf(S, t[1]) ELSE t[1]

RECURSIVE to_xml_tree(_, _)

\* self.to_xml_tree() for an instance v of DataStructureModel(v.cls); the
\* annotations are those of the base model self._model()
to_xml_tree(S, v) ==
    LET fs == FieldsOf(S, v.cls)
        child(j) ==
            LET name == fs[j].name
                actual_type == unwrap_optional(fs[j].type)
                value == v.xs[j]
            IN  IF is_list_type(actual_type)
                THEN Element(name, NoText,
                        IF value.k = "none" THEN <<>>
                        ELSE [n \in 1..Len(value.xs) |->
                                IF value.xs[n].k = "model"
                                THEN to_xml_tree(S, value.xs[n])
                                ELSE Element(value.xs[n].cls,
                                             Text(Str(value.xs[n])), <<>>)])
                ELSE IF IsDataStructureModelClass(actual_type)
                THEN (IF value.k # "none" THEN to_xml_tree(S, value)
                      ELSE Element(name, NoText, <<>>))
                ELSE Element(name,
                        Text(IF value.k # "none" THEN Str(value) ELSE <<>>),
                        <<>>)
    IN  Element(NameOf(S, v.cls), NoText, [j \in 1..Len(fs) |-> child(j)])

RECURSIVE tostring(_)

\* tostring(tree) as fromstring reads it back: an element with an empty
\* text is written <tag /> and read with text None
tostring(e) ==
    Element(e.tag,
            IF e.text.none \/ e.text.s = <<>> THEN NoText ELSE e.text,
            [n \in 1..Len(e.kids) |-> tostring(e.kids[n])])

\* self.to_xml()
to_xml(S, v) == tostring(to_xml_tree(S, v))

\* a find that returns the first child whatever its tag
FindAny(e, name) == IF e.kids # <<>> THEN <<e.kids[1]>> ELSE <<>>

\* element.find(name): the first child with that tag, as zero or one
Find(e, name) ==
    IF \E n \in 1..Len(e.kids) : e.kids[n].tag = name
    THEN <<e.kids[CHOOSE n \in 1..Len(e.kids) :
                     /\ e.kids[n].tag = name
                     /\ \A j \in 1..(n - 1) : e.kids[j].tag # name]>>
    ELSE <<>>

RECURSIVE from_xml_tree(_, _, _)

\* DataStructureModel(m).from_xml_tree(element)
from_xml_tree(S, m, element) ==
    LET fs == FieldsOf(S, m)
        field(j) ==
            LET name == fs[j].name
                actual_type == unwrap_optional(fs[j].type)
                item_type == unwrap_list(actual_type)
                found == Find(element, name)
            IN  IF is_list_type(actual_type)
                THEN (IF found = <<>> THEN Ok(None)
                      ELSE LET rs == [n \in 1..Len(found[1].kids) |->
                                   LET item == found[1].kids[n]
                                   IN  IF item.tag # ClassName(S, item_type)
                                       THEN Err("ValueError")
                                       ELSE IF IsBaseModel(item_type)
                                       THEN from_xml_tree(S, item_type[1], item)
                                       ELSE CallType(item_type[1], item.text)]
                           IN  IF AllOk(rs) THEN Ok(PyList(Vals(rs)))
                               ELSE Err(FirstErr(rs)))
                ELSE IF IsBaseModel(actual_type)
                THEN (IF found = <<>> THEN Ok(None)
                      ELSE from_xml_tree(S, actual_type[1], found[1]))
                ELSE IF IsType(actual_type)
                THEN (IF found = <<>> THEN Ok(None)
                      ELSE CallType(actual_type[1], found[1].text))
                ELSE Ok(None)
        rs == [j \in 1..Len(fs) |-> field(j)]
    IN  IF ~AllOk(rs) THEN Err(FirstErr(rs))
        ELSE Validate(S, <<m>>,
                 PyDict([j \in 1..Len(fs) |-> Entry(fs[j].name, rs[j].val)]))

\* DataStructureModel(m).from_xml(xml_data)
from_xml(S, m, x) == from_xml_tree(S, m, x)


(***************************************************************************)
(* Documents as a caller writes them, after the documents of the tests:    *)
(* a native tree, json.dumps of it, a YAML text with plain scalars, and an *)
(* XML text with one element per field that has a value, a list as a       *)
(* wrapper of items tagged by class name, a nested record as a subtree     *)
(* under the name of its field.                                            *)
(***************************************************************************)
RECURSIVE Concat(_)
Concat(ss) == IF ss = <<>> THEN <<>> ELSE Head(ss) \o Concat(Tail(ss))

RECURSIVE json_dumps(_)
json_dumps(v) ==
    CASE v.k = "dict" ->
            Val("dict", "object", NoBig, <<>>,
                [n \in 1..Len(v.xs) |-> Entry(v.xs[n].cls, json_dumps(v.xs[n].xs[1]))])
      [] v.k = "list" ->
            Val("list", "array", NoBig, <<>>, [n \in 1..Len(v.xs) |-> json_dumps(v.xs[n])])
      [] v.k = "int" -> Val("int", "number", v.i, <<>>, <<>>)
      [] v.k = "float" -> Val("float", "number", v.i, <<>>, <<>>)
      [] v.k = "bool" -> Val("bool", "boolean", v.i, <<>>, <<>>)
      [] v.k = "str" -> Val("str", "string", NoBig, v.s, <<>>)
      [] OTHER -> Val("none", "null", NoBig, <<>>, <<>>)

RECURSIVE WriteXml(_, _, _, _)

\* the element tagged tag for the dict d written for the record m
WriteXml(S, m, tag, d) ==
    LET fs == FieldsOf(S, m)
        item(t, x) ==
            IF IsBaseModel(t) THEN WriteXml(S, t[1], NameOf(S, t[1]), x)
            ELSE Element(t[1], Text(Str(x)), <<>>)
        child(j) ==
            LET e == Lookup(d, fs[j].name)
                t == unwrap_optional(fs[j].type)
            IN  IF e = <<>> \/ e[1].k = "none" THEN <<>>
                ELSE IF is_list_type(t)
                THEN <<Element(fs[j].name, NoText,
                         [n \in 1..Len(e[1].xs) |-> item(Tail(t), e[1].xs[n])])>>
                ELSE IF IsBaseModel(t)
                THEN <<WriteXml(S, t[1], fs[j].name, e[1])>>
                ELSE <<Element(fs[j].name, Text(Str(e[1])), <<>>)>>
    IN  Element(tag, NoText, Concat([j \in 1..Len(fs) |-> child(j)]))

\* a document written by a caller, and one made by a to_* method
Doc(fmt, body) == [fmt |-> fmt, by |-> "caller", body |-> body]

Dumped(fmt, body) == [fmt |-> fmt, by |-> "dump", body |-> body]

Written(S, m, d) ==
    { Doc("native", d), Doc("json", json_dumps(d)), Doc("yaml", yaml_dump(d)),
      Doc("xml", tostring(WriteXml(S, m, NameOf(S, m), d))) }

(***************************************************************************)
(* Building an instance from a document: the record IntModel with a field  *)
(* of a fixed-width kind and a field holding a list of that kind, on every *)
(* value at or next to an end of the kind's range.                         *)
(***************************************************************************)
MaxItems == 2

Unused == [name |-> "Unused", fields |-> <<>>]

IntSchema(k) ==
    [r \in RecIds |->
        IF r = "r1"
        THEN [name |-> "IntModel", fields |-> MkFields(<<<<k>>, <<"list", k>>>>)]
        ELSE Unused]

EdgeValues(k) ==
    { PyInt("int", n) : n \in {RangeMin(k), RangeMax(k), BigAdd(RangeMin(k), -1),
                               BigAdd(RangeMax(k), 1)} }

SeqsFrom0(T, n) == UNION {[1..j -> T] : j \in 0..n}

IntData(k) ==
    { PyDict(<<Entry(FieldNames[1], x), Entry(FieldNames[2], PyList(l))>>) :
        x \in EdgeValues(k), l \in SeqsFrom0(EdgeValues(k), MaxItems) }

InitParse ==
    /\ kind \in Kinds
    /\ schema = IntSchema(kind)
    /\ root = "r1"
    /\ data \in IntData(kind)
    /\ doc \in Written(schema, root, data)
    /\ parsed = NoRes
    /\ inst = NoVal
    /\ arg = NoBig /\ res = NoIntRes /\ xsd = NoXsd /\ complex_types = <<>>
    /\ NoEmit /\ NoCache

Loaded(r) ==
    /\ parsed = NoRes
    /\ parsed' = r
    /\ inst' = IF doc.by = "caller" THEN r.val ELSE inst
    /\ UNCHANGED <<kind, arg, res, schema, data, root, doc, xsd, complex_types>>
    /\ UNCHANGED <<emitVars, cacheVars>>

\* DataStructureModel(root).from_native_tree(doc)
FromNativeTree == doc.fmt = "native" /\ Loaded(from_native_tree(schema, root, doc.body))

\* DataStructureModel(root).from_json(doc)
FromJson == doc.fmt = "json" /\ Loaded(from_json(schema, root, doc.body))

\* DataStructureModel(root).from_yaml(doc)
FromYaml == doc.fmt = "yaml" /\ Loaded(from_yaml(schema, root, doc.body))

\* DataStructureModel(root).from_xml(doc)
FromXml == doc.fmt = "xml" /\ Loaded(from_xml(schema, root, doc.body))

NextParse == FromNativeTree \/ FromJson \/ FromYaml \/ FromXml

SpecParse == InitParse /\ [][NextParse]_vars

\* v lies in the range the claims give for the kind k
Claimed(k, v) == BigLe(ClaimedMin(k), v) /\ BigLe(v, ClaimedMax(k))

\* C2: building an instance from a native tree, a YAML or an XML document
\* applies the range check of the kind alike to the scalar field and to
\* every element of the list field: with all values in range the instance
\* is built and holds instances of the kind with those values, and with
\* any value out of range no instance is built.
C2_RangeCheckedAlike ==
    parsed # NoRes =>
        LET x == Lookup(data, FieldNames[1])[1]
            l == Lookup(data, FieldNames[2])[1].xs
        IN  IF Claimed(kind, x.i) /\ \A n \in 1..Len(l) : Claimed(kind, l[n].i)
            THEN /\ parsed.ok
                 /\ parsed.val.xs[1] = PyInt(kind, x.i)
                 /\ Len(parsed.val.xs[2].xs) = Len(l)
                 /\ \A n \in 1..Len(l) : parsed.val.xs[2].xs[n] = PyInt(kind, l[n].i)
            ELSE ~parsed.ok /\ inst = NoVal

\* an XML document whose scalar is in range and whose list has its second
\* element just above the range has been refused
C2_Witness ==
    /\ doc.fmt = "xml" /\ kind = "u32"
    /\ data.xs[1].xs[1].i = Big(65535, 65535)
    /\ Len(data.xs[2].xs[1].xs) = 2
    /\ data.xs[2].xs[1].xs[1].i = Big(0, 0)
    /\ data.xs[2].xs[1].xs[2].i = Big(65536, 0)
    /\ parsed # NoRes /\ ~parsed.ok


(***************************************************************************)
(* Round trips.  The root r1 has 1..MaxFields fields of any of RtTypes,    *)
(* r2 is Address{city: str, note: Optional[str] = None}.  An instance is   *)
(* built from a native tree, serialised by one of the to_* methods and     *)
(* read back by the from_* method of the same format.                      *)
(***************************************************************************)
RtTypes ==
    { <<"str">>, <<"int">>, <<"float">>, <<"bool">>, <<"u32">>,
      <<"opt", "int">>, <<"list", "str">>, <<"list", "i8">>,
      <<"r2">>, <<"opt", "r2">>, <<"opt", "list", "r2">> }

RtSchemas ==
    { [r \in RecIds |->
         IF r = "r1" THEN [name |-> "Person", fields |-> MkFields(t1)]
         ELSE IF r = "r2"
         THEN [name |-> "Address",
               fields |-> MkFields(<<<<"str">>, <<"opt", "str">>>>)]
         ELSE Unused] :
      t1 \in SeqsUpTo(RtTypes, MaxFields) }

Cyclic(seq, n) == seq[((n - 1) % Len(seq)) + 1]

MaxLen(lens) == CHOOSE n \in lens : \A l \in lens : l <= n

RECURSIVE Samples(_, _)

\* the values tried for an annotation, in a fixed order: a list takes the
\* first 0..MaxItems samples of its items, the n-th sample of a record
\* takes the n-th sample of every field
Samples(S, t) ==
    IF t[1] = "opt" THEN <<None>> \o Samples(S, Tail(t))
    ELSE IF t[1] = "list"
    THEN LET items == Samples(S, Tail(t))
         IN  [n \in 1..(MaxItems + 1) |->
                 PyList([j \in 1..(n - 1) |-> Cyclic(items, j)])]
    ELSE IF t[1] \in RecIds
    THEN LET fs == FieldsOf(S, t[1])
             count == MaxLen({Len(Samples(S, fs[j].type)) : j \in 1..Len(fs)})
         IN  [n \in 1..count |->
                 PyDict([j \in 1..Len(fs) |->
                     Entry(fs[j].name, Cyclic(Samples(S, fs[j].type), n))])]
    ELSE CASE t[1] = "str" -> <<PyStr(<<"A">>), PyStr(<<>>)>>
           [] t[1] = "int" -> <<PyInt("int", FromInt(-7))>>
           [] t[1] = "float" -> <<PyFloat(FromInt(3))>>
           [] t[1] = "bool" -> <<PyBool(TRUE), PyBool(FALSE)>>
           [] t[1] = "u32" -> <<PyInt("int", Big(65535, 65535))>>
           [] t[1] = "i8" -> <<PyInt("int", FromInt(-128)), PyInt("int", FromInt(5))>>
           [] OTHER -> <<PyInt("int", FromInt(0))>>

\* the native trees for the root: every combination of the field samples
RootData(S) ==
    LET fs == FieldsOf(S, "r1")
        choice == [j \in 1..Len(fs) |-> 1..Len(Samples(S, fs[j].type))]
    IN  { PyDict([j \in 1..Len(fs) |->
                     Entry(fs[j].name, Samples(S, fs[j].type)[c[j]])]) :
          c \in {f \in [1..Len(fs) -> 1..(MaxItems + 4)] :
                    \A j \in 1..Len(fs) : f[j] \in choice[j]} }

InitRt ==
    /\ schema \in RtSchemas
    /\ root = "r1"
    /\ data \in RootData(schema)
    /\ doc = Doc("native", data)
    /\ parsed = NoRes
    /\ inst = NoVal
    /\ kind = "i8" /\ arg = NoBig /\ res = NoIntRes
    /\ xsd = NoXsd /\ complex_types = <<>>
    /\ NoEmit /\ NoCache

Serialised(d) ==
    /\ doc' = d
    /\ parsed' = NoRes
    /\ UNCHANGED <<kind, arg, res, schema, data, root, inst, xsd, complex_types>>
    /\ UNCHANGED <<emitVars, cacheVars>>

\* inst.to_native_tree()
ToNativeTree == parsed.ok /\ Serialised(Dumped("native", to_native_tree(schema, inst)))

\* inst.to_json()
ToJson == parsed.ok /\ Serialised(Dumped("json", to_json(schema, inst)))

\* inst.to_yaml()
ToYaml == parsed.ok /\ Serialised(Dumped("yaml", to_yaml(schema, inst)))

\* inst.to_xml()
ToXml == parsed.ok /\ Serialised(Dumped("xml", to_xml(schema, inst)))

NextRt ==
    \/ FromNativeTree \/ FromJson \/ FromYaml \/ FromXml
    \/ ToNativeTree \/ ToJson \/ ToYaml \/ ToXml

SpecRt == InitRt /\ [][NextRt]_vars


RECURSIVE NonNull(_)

\* no None anywhere in the value
NonNull(v) == v.k # "none" /\ \A n \in 1..Len(v.xs) : NonNull(v.xs[n])

\* the document at hand was made from inst by the method of format fmt and
\* has been read back
RoundTripped(fmt) ==
    /\ doc.by = "dump" /\ doc.fmt = fmt
    /\ inst.k = "model"
    /\ parsed # NoRes

\* C7: from_xml(to_xml(x)) succeeds and equals x for every instance x with
\* a non-null value in every field.
C7_XmlRoundTrip ==
    (RoundTripped("xml") /\ NonNull(inst)) => (parsed.ok /\ parsed.val = inst)

\* C8: from_json(to_json(x)), from_yaml(to_yaml(x)) and
\* from_native_tree(to_native_tree(x)) succeed and equal x for every
\* instance x with a non-null value in every field.
C8_JsonYamlRoundTrip ==
    ((RoundTripped("json") \/ RoundTripped("yaml") \/ RoundTripped("native"))
        /\ NonNull(inst)) => (parsed.ok /\ parsed.val = inst)

\* the fields of the root that are Optional and hold None in inst
AbsentFields ==
    {j \in 1..Len(inst.xs) :
        /\ FieldsOf(schema, root)[j].type[1] = "opt"
        /\ inst.xs[j].k = "none"}

\* C9: a round trip in JSON, YAML or XML succeeds and leaves absent exactly
\* the optional fields that were absent.
C9_AbsencePreserved ==
    ((RoundTripped("json") \/ RoundTripped("yaml") \/ RoundTripped("xml"))
        /\ AbsentFields # {})
    => /\ parsed.ok
       /\ \A j \in 1..Len(inst.xs) :
             (parsed.val.xs[j].k = "none") <=> (j \in AbsentFields)

\* the list fields of the root that hold the empty list in inst
EmptyListFields ==
    {j \in 1..Len(inst.xs) : inst.xs[j].k = "list" /\ inst.xs[j].xs = <<>>}

\* C10: a round trip in JSON, YAML or XML of an instance with an empty
\* list succeeds and gives an instance in which that list is empty, not
\* None.
C10_EmptyListKept ==
    ((RoundTripped("json") \/ RoundTripped("yaml") \/ RoundTripped("xml"))
        /\ EmptyListFields # {})
    => /\ parsed.ok
       /\ \A j \in EmptyListFields : parsed.val.xs[j] = PyList(<<>>)


(***************************************************************************)
(* The XML tree of an instance.                                            *)
(***************************************************************************)
\* inst.to_xml() has been called and its return value is the document
XmlDumped == doc.by = "dump" /\ doc.fmt = "xml" /\ inst.k = "model"

\* the annotation of field j of the root without its Optional
ActualType(j) == unwrap_optional(FieldsOf(schema, root)[j].type)

\* field j of the root is annotated with a primitive or fixed-width class
IsPrimitiveField(j) ==
    IsType(ActualType(j)) /\ ActualType(j)[1] \in PrimClasses \cup IntClasses

\* C11: the tree to_xml_tree makes has the record's name as root tag and
\* one child per field, tagged with the field name, in declaration order;
\* the child of a list field holds one child per item in list order,
\* tagged with the item's type name (the record name for a record item,
\* the class name otherwise); the child of a primitive field carries
\* str(value) as text.
C11_XmlTreeShape ==
    XmlDumped =>
        LET fs == FieldsOf(schema, root)
            e == to_xml_tree(schema, inst)
        IN  /\ doc.body = tostring(e)
            /\ e.tag = NameOf(schema, root)
            /\ Len(e.kids) = Len(fs)
            /\ \A j \in 1..Len(fs) :
                  /\ e.kids[j].tag = fs[j].name
                  /\ (is_list_type(ActualType(j)) /\ inst.xs[j].k = "list") =>
                        /\ Len(e.kids[j].kids) = Len(inst.xs[j].xs)
                        /\ \A n \in 1..Len(inst.xs[j].xs) :
                              /\ e.kids[j].kids[n].tag
                                    = ClassName(schema, unwrap_list(ActualType(j)))
                              /\ inst.xs[j].xs[n].k # "model" =>
                                    /\ e.kids[j].kids[n].tag = inst.xs[j].xs[n].cls
                                    /\ e.kids[j].kids[n].text
                                          = Text(Str(inst.xs[j].xs[n]))
                  /\ (IsPrimitiveField(j) /\ inst.xs[j].k # "none") =>
                        /\ e.kids[j].kids = <<>>
                        /\ e.kids[j].text = Text(Str(inst.xs[j]))

\* an instance with a list of two records and a fixed-width integer has
\* been written
C11_Witness ==
    /\ XmlDumped
    /\ \E j \in 1..Len(inst.xs) :
          /\ inst.xs[j].k = "list" /\ Len(inst.xs[j].xs) = 2
          /\ inst.xs[j].xs[1].k = "model"
    /\ \E j \in 1..Len(inst.xs) : inst.xs[j].cls = "u32"


\* field j of the root is annotated with a record, not a list of them
IsNestedField(j) == IsBaseModel(ActualType(j))

\* C12: for a nested-record field holding a value, to_xml_tree emits a
\* child with one child element per field of the nested record, in order,
\* and from_xml_tree, looking it up by the field's name, rebuilds a nested
\* instance equal to the value.
C12_NestedSubtree ==
    XmlDumped =>
        \A j \in 1..Len(inst.xs) :
            (IsNestedField(j) /\ inst.xs[j].k = "model") =>
                LET sub == to_xml_tree(schema, inst).kids[j]
                    nfs == FieldsOf(schema, ActualType(j)[1])
                IN  /\ sub.tag = FieldsOf(schema, root)[j].name
                    /\ Len(sub.kids) = Len(nfs)
                    /\ \A n \in 1..Len(nfs) : sub.kids[n].tag = nfs[n].name
                    /\ parsed # NoRes =>
                          (parsed.ok /\ parsed.val.xs[j] = inst.xs[j])


(***************************************************************************)
(* Documents that leave optional fields out.  Person has a required name,  *)
(* an optional int, an optional list of str, an optional list of Address   *)
(* and an optional Address; Address has a required city and an optional    *)
(* note.  A document gives any subset of the optional fields, in the root  *)
(* and in every Address.                                                   *)
(***************************************************************************)
PersonSchema ==
    [r \in RecIds |->
        IF r = "r1"
        THEN [name |-> "Person",
              fields |-> MkFields(<< <<"str">>, <<"opt", "int">>,
                                     <<"opt", "list", "str">>,
                                     <<"opt", "list", "r2">>,
                                     <<"opt", "r2">> >>)]
        ELSE IF r = "r2"
        THEN [name |-> "Address",
              fields |-> MkFields(<< <<"str">>, <<"opt", "str">> >>)]
        ELSE Unused]

\* the dicts a document gives for an Address: with and without the note
AddressData ==
    { PyDict(<<Entry("a", PyStr(<<"X">>))>>),
      PyDict(<<Entry("a", PyStr(<<"X">>)), Entry("b", PyStr(<<"1", "A">>))>>) }

\* the entries a document may give for each optional field of Person
OptionalEntries ==
    [b |-> {PyInt("int", FromInt(42))},
     c |-> {PyList(<<>>), PyList(<<PyStr(<<"A">>)>>)},
     d |-> {PyList(l) : l \in SeqsFrom0(AddressData, MaxItems)},
     e |-> AddressData]

\* the dicts for a Person: the name and, for every subset of the optional
\* fields, a value for each field of the subset
PersonData ==
    UNION { LET keys == <<"b", "c", "d", "e">>
                given == [n \in 1..4 |-> keys[n] \in present]
            IN  { PyDict(<<Entry("a", PyStr(<<"D">>))>>
                         \o Concat([n \in 1..4 |->
                               IF given[n] THEN <<Entry(keys[n], v[n])>>
                               ELSE <<>>])) :
                  v \in { f \in [1..4 -> UNION {OptionalEntries[k] :
                                          k \in {"b", "c", "d", "e"}}] :
                            \A n \in 1..4 :
                               f[n] \in IF given[n] THEN OptionalEntries[keys[n]]
                                        ELSE {PyInt("int", FromInt(42))} } } :
            present \in SUBSET {"b", "c", "d", "e"} }

InitMissing ==
    /\ kind = "i8"
    /\ schema = PersonSchema
    /\ root = "r1"
    /\ data \in PersonData
    /\ doc \in Written(schema, root, data)
    /\ parsed = NoRes
    /\ inst = NoVal
    /\ arg = NoBig /\ res = NoIntRes /\ xsd = NoXsd /\ complex_types = <<>>
    /\ NoEmit /\ NoCache

SpecMissing == InitMissing /\ [][NextParse]_vars


\* the document gives no entry for the key in the dict d
Missing(d, key) == Lookup(d, key) = <<>>

Emitters == {"cpp", "cs", "go", "java", "rust", "swift"}

\* the outcome of a call that returns a text or a list of lines
Returned(v) == [ok |-> TRUE, err |-> "", val |-> v]

Raised(e) == [ok |-> FALSE, err |-> e, val |-> <<>>]

NotCalled == [ok |-> FALSE, err |-> "not called", val |-> <<>>]

\* a fallback the claims do not name
FallbackTypeVoid(l) == <<"void">>

\* the last return of each _x_type_str
FallbackType(l) ==
    CASE l = "cpp"   -> <<"auto">>
      [] l = "cs"    -> <<"object">>
      [] l = "go"    -> <<"interface{}">>
      [] l = "java"  -> <<"Object">>
      [] l = "rust"  -> <<"serde_json::Value">>
      [] l = "swift" -> <<"Any">>

\* annotation is (i8, i16, i32, u8, u16, u32): identity with a tuple
IsTheKindTuple(c) == FALSE

\* the chain of 'annotation is X' tests of each _x_type_str, for a class c
ClassTypeStr(l, S, c) ==
    CASE l = "cpp" ->
           (CASE c = "i8"    -> <<"int8_t">>
              [] c = "i16"   -> <<"int16_t">>
              [] c = "i32"   -> <<"int32_t">>
              [] c = "u8"    -> <<"uint8_t">>
              [] c = "u16"   -> <<"uint16_t">>
              [] c = "u32"   -> <<"uint32_t">>
              [] c = "str"   -> <<"std::string">>
              [] c = "float" -> <<"double">>
              [] c = "int"   -> <<"int">>
              [] OTHER       -> FallbackType(l))
      [] l = "rust" ->
           (CASE c \in Kinds -> <<c>>
              [] c = "str"   -> <<"String">>
              [] c = "float" -> <<"f64">>
              [] c = "int"   -> <<"i64">>
              [] OTHER       -> FallbackType(l))
      [] l = "cs" ->
           (CASE c \in {"i8", "i16", "i32", "int"} -> <<"int">>
              [] c \in {"u8", "u16", "u32"}        -> <<"uint">>
              [] c = "float" -> <<"double">>
              [] c = "str"   -> <<"string">>
              [] OTHER       -> FallbackType(l))
      [] l = "go" ->
           (CASE c \in {"i8", "i16", "i32", "int"} -> <<"int">>
              [] c \in {"u8", "u16", "u32"}        -> <<"uint">>
              [] c = "float" -> <<"float64">>
              [] c = "str"   -> <<"string">>
              [] OTHER       -> FallbackType(l))
      [] l = "swift" ->
           (CASE c \in {"i8", "i16", "i32", "int"} -> <<"Int">>
              [] c \in {"u8", "u16", "u32"}        -> <<"UInt">>
              [] c = "float" -> <<"Double">>
              [] c = "str"   -> <<"String">>
              [] OTHER       -> FallbackType(l))
      [] l = "java" ->
           (CASE c = "str"   -> <<"String">>
              [] c = "int"   -> <<"int">>
              [] IsTheKindTuple(c) -> <<"int">>
              [] c = "float" -> <<"double">>
              [] c = "bool"  -> <<"boolean">>
              [] c \in RecIds -> <<NameOf(S, c)>>
              [] OTHER       -> FallbackType(l))


\* what each _x_type_str returns for Optional[...] around the inner text
OptionalOf(l, inner) ==
    CASE l = "cpp"   -> <<"std::optional<">> \o inner \o <<">">>
      [] l = "cs"    -> inner \o <<"?">>
      [] l = "go"    -> <<"*">> \o inner
      [] l = "java"  -> inner
      [] l = "rust"  -> <<"Option<">> \o inner \o <<">">>
      [] l = "swift" -> inner \o <<"?">>

\* what each _x_type_str returns for List[...] around the item text
ListOf(l, item) ==
    CASE l = "cpp"   -> <<"std::vector<">> \o item \o <<">">>
      [] l = "cs"    -> <<"List<">> \o item \o <<">">>
      [] l = "go"    -> <<"[]">> \o item
      [] l = "java"  -> <<"List<">> \o item \o <<">">>
      [] l = "rust"  -> <<"Vec<">> \o item \o <<">">>
      [] l = "swift" -> <<"[">> \o item \o <<"]">>

\* the adapters that test 'origin in (dict, Dict)'
MapsDict == {"cpp", "rust"}

\* what _cpp_type_str and _rust_type_str return for Dict[key, value]
DictOf(l, key, value) ==
    IF l = "cpp" THEN <<"std::map<">> \o key \o <<", ">> \o value \o <<">">>
    ELSE <<"std::collections::HashMap<">> \o key \o <<", ">> \o value \o <<">">>

RECURSIVE type_str(_, _, _)

\* self._x_type_str(annotation) of the adapter l, for annotations of the
\* record graph S
type_str(l, S, t) ==
    IF t[1] = "opt"
    THEN LET inner == type_str(l, S, Tail(t))
         IN  IF inner.ok THEN Returned(OptionalOf(l, inner.val)) ELSE inner
    ELSE IF t[1] = "list"
    THEN IF Tail(t) = <<>> THEN Raised("IndexError")
         ELSE LET item == type_str(l, S, Tail(t))
              IN  IF item.ok THEN Returned(ListOf(l, item.val)) ELSE item
    ELSE IF t[1] = "dict" /\ l \in MapsDict
    THEN IF Tail(t) = <<>> THEN Raised("IndexError")
         ELSE LET key == type_str(l, S, <<"str">>)
                  value == type_str(l, S, Tail(t))
              IN  IF value.ok THEN Returned(DictOf(l, key.val, value.val))
                  ELSE value
    ELSE IF t[1] = "dict" THEN Returned(FallbackType(l))
    ELSE Returned(ClassTypeStr(l, S, t[1]))


(***************************************************************************)
(* generate_definition.  The text is kept as the sequence of the lines     *)
(* that declare something: the type, its members, and the conversion       *)
(* operations; the statements inside the bodies are not kept.              *)
(***************************************************************************)
Line(what, name, key, type, fmt, dir) ==
    [line |-> what, name |-> name, key |-> key, type |-> type,
     fmt |-> fmt, dir |-> dir]

\* an import, a using, an include or a comment
Other(text) == Line("other", text, "", <<>>, "", "")

\* the line that opens the declaration of the type
Decl(name) == Line("type", name, "", <<>>, "", "")

\* the declaration of a member, with the key it has on the wire
Member(name, key, type) == Line("member", name, key, type, "", "")

\* an operation between a value and a text
TextOp(name, fmt, dir) == Line("text", name, "", <<>>, fmt, dir)

\* an operation between a value and a file
FileOp(name, fmt, dir) == Line("file", name, "", <<>>, fmt, dir)

\* name[:1].upper() + name[1:]
Capitalize(name) ==
    CASE name = "a" -> "A" [] name = "b" -> "B" [] name = "c" -> "C"
      [] name = "d" -> "D" [] name = "e" -> "E" [] OTHER -> name

\* the lines before the declaration of the type
Preamble(l) ==
    CASE l = "cpp"   -> <<Other("#include"), Other("using std::string; using std::vector;")>>
      [] l = "cs"    -> <<Other("using")>>
      [] l = "go"    -> <<Other("import")>>
      [] l = "java"  -> <<Other("import")>>
      [] l = "rust"  -> <<Other("#[derive]")>>
      [] l = "swift" -> <<Other("import Foundation")>>

\* the member each adapter declares for a field
MemberOf(l, name, type) ==
    IF l = "go" THEN Member(Capitalize(name), name, type)
    ELSE Member(name, name, type)

\* the operations each adapter appends after the members
Operations(l) ==
    CASE l = "cpp" ->
            << TextOp("to_json", "json", "to"), TextOp("from_json", "json", "from"),
               TextOp("to_yaml", "yaml", "to"), TextOp("from_yaml", "yaml", "from"),
               TextOp("to_xml", "xml", "to"), TextOp("from_xml", "xml", "from"),
               FileOp("to_json_file", "json", "to"),
               FileOp("from_json_file", "json", "from"),
               FileOp("to_yaml_file", "yaml", "to"),
               FileOp("from_yaml_file", "yaml", "from"),
               FileOp("to_xml_file", "xml", "to"),
               FileOp("from_xml_file", "xml", "from") >>
      [] l = "cs" ->
            << TextOp("ToJson", "json", "to"), TextOp("FromJson", "json", "from"),
               TextOp("ToXml", "xml", "to"), TextOp("FromXml", "xml", "from") >>
      [] l = "go" ->
            << TextOp("ToJSON", "json", "to"), TextOp("FromJSON", "json", "from"),
               TextOp("ToXML", "xml", "to"), TextOp("FromXML", "xml", "from"),
               TextOp("ToYAML", "yaml", "to"), TextOp("FromYAML", "yaml", "from") >>
      [] l = "java" ->
            << Other("constructors"), Other("toString"),
               TextOp("toJson", "json", "to"), TextOp("fromJson", "json", "from"),
               TextOp("toYaml", "yaml", "to"), TextOp("fromYaml", "yaml", "from"),
               TextOp("toXml", "xml", "to"), TextOp("fromXml", "xml", "from") >>
      [] l = "rust" ->
            << Other("impl"),
               TextOp("to_json", "json", "to"), TextOp("from_json", "json", "from"),
               TextOp("to_yaml", "yaml", "to"), TextOp("from_yaml", "yaml", "from"),
               TextOp("to_xml", "xml", "to"), TextOp("from_xml", "xml", "from") >>
      [] l = "swift" ->
            << TextOp("toJSON", "json", "to"), TextOp("fromJSON", "json", "from"),
               Other("// XML serialization/deserialization would require a third-party library or custom implementation") >>

\* XAdapter(DataStructureModel(m)).generate_definition()
generate_definition(l, S, m) ==
    LET fs == FieldsOf(S, m)
        ts == [j \in 1..Len(fs) |-> type_str(l, S, fs[j].type)]
    IN  IF \E j \in 1..Len(fs) : ~ts[j].ok
        THEN ts[CHOOSE j \in 1..Len(fs) :
                    ~ts[j].ok /\ \A n \in 1..(j - 1) : ts[n].ok]
        ELSE Returned(Preamble(l) \o <<Decl(NameOf(S, m))>>
                      \o [j \in 1..Len(fs) |-> MemberOf(l, fs[j].name, ts[j].val)]
                      \o Operations(l))


(***************************************************************************)
(* The adapters at work: one adapter, one annotation, and the record       *)
(* Person{a: str, b: <the annotation>} with Address{a: str, b:             *)
(* Optional[str]} as the nested record.                                    *)
(***************************************************************************)
MaxDepth == 2

\* the classes an annotation may end in; bytes is a class no adapter tests
EmitClasses == {"str", "int", "float", "bool", "r2", "bytes"} \cup Kinds

\* the wrappers around the class: Optional never directly inside Optional
WrapSeqs(n) ==
    { w \in SeqsFrom0({"opt", "list", "dict"}, n) :
        \A j \in 1..(Len(w) - 1) : ~(w[j] = "opt" /\ w[j + 1] = "opt") }

Annotations ==
    { w \o <<c>> : w \in WrapSeqs(MaxDepth), c \in EmitClasses }
    \cup { w \o <<"list">> : w \in WrapSeqs(MaxDepth - 1) }

EmitSchema(t) ==
    [r \in RecIds |->
        IF r = "r1"
        THEN [name |-> "Person", fields |-> MkFields(<< <<"str">>, t >>)]
        ELSE IF r = "r2"
        THEN [name |-> "Address",
              fields |-> MkFields(<< <<"str">>, <<"opt", "str">> >>)]
        ELSE Unused]

InitEmit ==
    /\ lang \in Emitters
    /\ ann \in Annotations
    /\ schema = EmitSchema(ann)
    /\ root = "r1"
    /\ typ = NotCalled /\ code = NotCalled /\ outputs = {}
    /\ kind = "i8" /\ arg = NoBig /\ res = NoIntRes
    /\ data = NoVal /\ inst = NoVal /\ doc = NoDoc /\ parsed = NoRes
    /\ xsd = NoXsd /\ complex_types = <<>>
    /\ NoCache

\* adapter._x_type_str(ann)
TypeStr ==
    /\ typ = NotCalled
    /\ typ' = type_str(lang, schema, ann)
    /\ UNCHANGED <<kind, arg, res, schema, data, root, inst, doc, parsed, xsd,
                   complex_types, lang, ann, code, outputs, cacheVars>>

\* adapter.generate_definition()
GenerateDefinition ==
    /\ code = NotCalled
    /\ code' = generate_definition(lang, schema, root)
    /\ UNCHANGED <<kind, arg, res, schema, data, root, inst, doc, parsed, xsd,
                   complex_types, lang, ann, typ, outputs, cacheVars>>

NextEmit == TypeStr \/ GenerateDefinition

SpecEmit == InitEmit /\ [][NextEmit]_vars


\* t is a type descriptor: Optional and List wrappers, never Optional
\* directly inside Optional, around a class
IsDescriptor(t) ==
    /\ t[Len(t)] \in EmitClasses
    /\ \A j \in 1..(Len(t) - 1) : t[j] \in {"opt", "list"}
    /\ \A j \in 1..(Len(t) - 1) : ~(t[j] = "opt" /\ t[j + 1] = "opt")

\* outer is inner with something put around it
Wraps(outer, inner) ==
    /\ Len(outer) > Len(inner)
    /\ \E k \in 0..(Len(outer) - Len(inner)) :
          SubSeq(outer, k + 1, k + Len(inner)) = inner

\* the type mapping has been applied to the descriptor at hand
Mapped == typ # NotCalled /\ IsDescriptor(ann)

\* C14: in every adapter the type string of Optional(t) is a wrapper
\* around the type string of t, and the type string of List(t) is a
\* sequence type around the type string of t, different from the optional
\* one, at any depth of nesting.
C14_WrappersRecursive ==
    (Mapped /\ ann[1] \in {"opt", "list"}) =>
        LET inner == type_str(lang, schema, Tail(ann))
        IN  /\ typ.ok /\ inner.ok
            /\ Wraps(typ.val, inner.val)
            /\ ann[1] = "list" =>
                  typ.val # type_str(lang, schema, <<"opt">> \o Tail(ann)).val


\* the dynamic type the claims name for each adapter
ClaimedFallback(l) ==
    CASE l = "cpp"   -> "auto"
      [] l = "cs"    -> "object"
      [] l = "go"    -> "interface{}"
      [] l = "java"  -> "Object"
      [] l = "rust"  -> "serde_json::Value"
      [] l = "swift" -> "Any"

\* the piece s occurs in the type string
Has(type, s) == \E n \in 1..Len(type) : type[n] = s

\* C15: in every adapter a descriptor that is a nested record, bare,
\* Optional or as the item of a List, is mapped to a type string built on
\* the record's name and not on the adapter's dynamic type.
C15_RecordByName ==
    (Mapped /\ ann[Len(ann)] \in RecIds) =>
        /\ typ.ok
        /\ Has(typ.val, NameOf(schema, ann[Len(ann)]))
        /\ ~Has(typ.val, ClaimedFallback(lang))


\* the narrowest integer type of each target language that has the
\* signedness and width of the kind k; Java has no unsigned types, so an
\* unsigned kind takes the next wider signed type there
NarrowestNative(l, k) ==
    CASE l = "cpp" ->
           (CASE k = "i8" -> "int8_t" [] k = "u8" -> "uint8_t"
              [] k = "i16" -> "int16_t" [] k = "u16" -> "uint16_t"
              [] k = "i32" -> "int32_t" [] k = "u32" -> "uint32_t")
      [] l = "rust" -> k
      [] l = "cs" ->
           (CASE k = "i8" -> "sbyte" [] k = "u8" -> "byte"
              [] k = "i16" -> "short" [] k = "u16" -> "ushort"
              [] k = "i32" -> "int" [] k = "u32" -> "uint")
      [] l = "go" ->
           (CASE k = "i8" -> "int8" [] k = "u8" -> "uint8"
              [] k = "i16" -> "int16" [] k = "u16" -> "uint16"
              [] k = "i32" -> "int32" [] k = "u32" -> "uint32")
      [] l = "swift" ->
           (CASE k = "i8" -> "Int8" [] k = "u8" -> "UInt8"
              [] k = "i16" -> "Int16" [] k = "u16" -> "UInt16"
              [] k = "i32" -> "Int32" [] k = "u32" -> "UInt32")
      [] l = "java" ->
           (CASE k = "i8" -> "byte" [] k = "u8" -> "short"
              [] k = "i16" -> "short" [] k = "u16" -> "int"
              [] k = "i32" -> "int" [] k = "u32" -> "long")

\* C16: in every adapter each fixed-width kind is mapped to the narrowest
\* native integer type of the target with its signedness and width, or
\* to the next wider one where the target has none, and never to the
\* adapter's dynamic type.
C16_FixedWidthNarrowest ==
    (Mapped /\ ann[1] \in Kinds) =>
        /\ typ.ok
        /\ typ.val # <<ClaimedFallback(lang)>>
        /\ typ.val = <<NarrowestNative(lang, ann[1])>>


\* the descriptor ends in a class the adapter has no mapping for: a class
\* unknown to every adapter, or bool outside the Java adapter
Unmapped == ann[Len(ann)] = "bytes" \/ (ann[Len(ann)] = "bool" /\ lang # "java")

\* C17: for every adapter and every descriptor the type mapping returns a
\* type string and does not raise; a descriptor the adapter has no mapping
\* for becomes the adapter's dynamic type, also inside Optional and List.
C17_FallbackNeverRaises ==
    Mapped =>
        /\ typ.ok
        /\ Unmapped =>
              /\ Has(typ.val, ClaimedFallback(lang))
              /\ Len(ann) = 1 => typ.val = <<ClaimedFallback(lang)>>
              /\ Len(ann) > 1 =>
                    Wraps(typ.val, <<ClaimedFallback(lang)>>) \/ lang = "java"

\* the C++ adapter has mapped Optional[List[bytes]]
C17_Witness ==
    /\ lang = "cpp" /\ ann = <<"opt", "list", "bytes">>
    /\ Mapped /\ typ.ok
    /\ typ.val = <<"std::optional<", "std::vector<", "auto", ">", ">">>


\* the wire formats each adapter says it supports (the docstring of its
\* generate_definition, or the one it inherits)
ClaimedFormats(l) ==
    IF l \in {"cs", "go", "swift"} THEN {"json", "xml"}
    ELSE {"json", "yaml", "xml"}

IsMember(x) == x.line = "member"

IsDecl(x) == x.line = "type"

\* generate_definition has been called for a record of descriptors
Generated == code # NotCalled /\ IsDescriptor(ann)

\* the text has an operation of the given sort, format and direction
HasOp(sort, fmt, dir) ==
    \E n \in 1..Len(code.val) :
        /\ code.val[n].line = sort
        /\ code.val[n].fmt = fmt /\ code.val[n].dir = dir

\* C18: for every adapter and record the text of generate_definition
\* declares a type named after the record, one member per field in field
\* order with the type string of the field's descriptor, and, for every
\* wire format the adapter says it supports, an operation to and an
\* operation from that format.
C18_DefinitionComplete ==
    Generated =>
        LET fs == FieldsOf(schema, root)
            ms == SelectSeq(code.val, IsMember)
        IN  /\ code.ok
            /\ SelectSeq(code.val, IsDecl) = <<Decl(NameOf(schema, root))>>
            /\ Len(ms) = Len(fs)
            /\ \A j \in 1..Len(fs) :
                  /\ ms[j].key = fs[j].name
                  /\ ms[j].type = type_str(lang, schema, fs[j].type).val
            /\ \A f \in ClaimedFormats(lang) :
                  HasOp("text", f, "to") /\ HasOp("text", f, "from")

\* the operations between value and text the generated text has
TextFormats ==
    {f \in {"json", "yaml", "xml"} : HasOp("text", f, "to") \/ HasOp("text", f, "from")}

\* C19: for every adapter and every wire format for which the generated
\* text has text conversion operations, it also has the pair of file
\* operations of that format.
C19_FileOperations ==
    (Generated /\ code.ok) =>
        \A f \in TextFormats : HasOp("file", f, "to") /\ HasOp("file", f, "from")


(***************************************************************************)
(* DataStructureModel, wrapped by functools.cache.  The cache maps the     *)
(* arguments of a call, positional ("pos") or by keyword ("kw"), to the    *)
(* value returned; a derived class is [of, refs]: the record it was made   *)
(* from and, per field, the derived class its annotation was transformed   *)
(* to (0 when the annotation holds no record).  A class is known by its    *)
(* position in classes.                                                    *)
(***************************************************************************)
CallStyles == {"pos", "kw"}

\* functools' key of a call: the positional arguments and the keywords
CacheKey(style, m) == <<style, m>>

\* the cached value for the key, as zero or one
Cached(c, key) == {e.cls : e \in {x \in c : x.key = key}}

RECURSIVE transform_fields(_, _, _, _, _, _)
RECURSIVE DataStructureModel(_, _, _, _, _)

\* the loop over base_model.model_fields from field i on: transform_type
\* reaches the record of an annotation through List, Dict and Union and
\* calls DataStructureModel(t) on it
transform_fields(S, m, i, st, refs, depth) ==
    IF i > Len(FieldsOf(S, m)) \/ ~st.ok
    THEN [st EXCEPT !.refs = refs]
    ELSE LET t == BaseOf(FieldsOf(S, m)[i].type)
             r == IF t \in RecIds
                  THEN DataStructureModel(S, "pos", t, st, depth + 1)
                  ELSE [st EXCEPT !.cls = 0]
         IN  transform_fields(S, m, i + 1, r, Append(refs, r.cls), depth)

\* one call of the cached DataStructureModel; st holds the cache and the
\* classes made so far, and comes back with the outcome of the call
DataStructureModel(S, style, m, st, depth) ==
    LET hit == Cached(st.cache, CacheKey(style, m))
    IN  IF hit # {}
        THEN [st EXCEPT !.cls = CHOOSE c \in hit : TRUE]
        ELSE IF m \notin RecIds
        THEN [st EXCEPT !.ok = FALSE, !.err = "TypeError"]
        ELSE IF depth > RecursionLimit
        THEN [st EXCEPT !.ok = FALSE, !.err = "RecursionError"]
        ELSE LET r == transform_fields(S, m, 1, st, <<>>, depth)
                 new_type == Len(r.classes) + 1
             IN  IF ~r.ok THEN r
                 ELSE [r EXCEPT
                         !.classes = Append(r.classes, [of |-> m, refs |-> r.refs]),
                         !.cache = r.cache \cup
                                     {[key |-> CacheKey(style, m), cls |-> new_type]},
                         !.cls = new_type]


\* the record graphs DataStructureModel is called on: Person refers to
\* Address and Pet from one or two fields, Address may refer to Pet, and
\* Pet may refer to itself
CacheSchemas ==
    { [r \in RecIds |->
         CASE r = "r1" -> [name |-> "Person", fields |-> MkFields(t1)]
           [] r = "r2" -> [name |-> "Address", fields |-> MkFields(t2)]
           [] r = "r3" -> [name |-> "Pet", fields |-> MkFields(t3)]] :
      t1 \in { << <<"str">> >>, << <<"r2">> >>, << <<"r2">>, <<"list", "r2">> >>,
               << <<"opt", "r2">>, <<"r3">> >>, << <<"list", "r3">>, <<"str">> >> },
      t2 \in { << <<"str">> >>, << <<"str">>, <<"opt", "r3">> >> },
      t3 \in { << <<"str">> >>, << <<"opt", "r3">> >> } }

\* what a caller may pass as base_model: a record, a class that is no
\* BaseModel, or a derived class
BaseModelArgs == RecIds \cup {"int", "r1DataStructureModel"}

InitCache ==
    /\ schema \in CacheSchemas
    /\ root = "r1"
    /\ cache = {} /\ classes = <<>> /\ calls = {}
    /\ kind = "i8" /\ arg = NoBig /\ res = NoIntRes
    /\ data = NoVal /\ inst = NoVal /\ doc = NoDoc /\ parsed = NoRes
    /\ xsd = NoXsd /\ complex_types = <<>>
    /\ NoEmit

\* DataStructureModel(m) or DataStructureModel(base_model=m)
CallDataStructureModel(style, m) ==
    LET r == DataStructureModel(schema, style, m,
                 [ok |-> TRUE, err |-> "", cls |-> 0, refs |-> <<>>,
                  cache |-> cache, classes |-> classes], 1)
    IN  /\ cache' = r.cache
        /\ classes' = r.classes
        /\ calls' = calls \cup {[style |-> style, m |-> m, ok |-> r.ok,
                                 err |-> r.err,
                                 cls |-> IF r.ok THEN r.cls ELSE 0]}
        /\ UNCHANGED <<kind, arg, res, schema, data, root, inst, doc, parsed,
                       xsd, complex_types, emitVars>>

NextCache ==
    \E style \in CallStyles, m \in BaseModelArgs : CallDataStructureModel(style, m)

SpecCache == InitCache /\ [][NextCache]_vars

\* C20: over any sequence of calls every call with the same source record
\* returns the identical derived class, a nested record reached from any
\* field of any class is transformed to that same class, and so at most
\* one derived class exists per source record.
C20_MemoisedPerRecord ==
    /\ \A c1, c2 \in calls :
          (c1.ok /\ c2.ok /\ c1.m = c2.m) => c1.cls = c2.cls
    /\ \A i, j \in 1..Len(classes) :
          classes[i].of = classes[j].of => i = j
    /\ \A i \in 1..Len(classes) : \A f \in 1..Len(classes[i].refs) :
          classes[i].refs[f] # 0 =>
              \A c \in calls :
                  (c.ok /\ c.m = classes[classes[i].refs[f]].of) =>
                      c.cls = classes[i].refs[f]


(***************************************************************************)
(* Generation calls one after another: to_xsd and the six adapters'        *)
(* generate_definition, on any record of one record graph, in any order.   *)
(* to_xsd's dict of complexType elements is handed from call to call as    *)
(* the interpreter leaves it, and to_xsd starts from StartDict of it.      *)
(***************************************************************************)
MaxCalls == 3

\* Person refers to Address and Pet, Address may refer to Pet, Pet may
\* refer to itself
GenSchemas ==
    { S \in CacheSchemas :
        S["r1"].fields \in { MkFields(<< <<"r2">>, <<"list", "r2">> >>),
                             MkFields(<< <<"opt", "r2">>, <<"r3">> >>) } }

InitGen ==
    /\ schema \in GenSchemas
    /\ root = "r1"
    /\ xsd = NoXsd /\ complex_types = <<>>
    /\ kind = "i8" /\ arg = NoBig /\ res = NoIntRes
    /\ data = NoVal /\ inst = NoVal /\ doc = NoDoc /\ parsed = NoRes
    /\ NoEmit
    /\ NoCache

\* DataStructureModel(m).to_xsd()
GenerateXsd(m) ==
    /\ Cardinality(outputs) < MaxCalls
    /\ root' = m
    /\ xsd' = to_xsd(schema, m, complex_types)
    /\ complex_types' = xsd'.dict
    /\ outputs' = outputs \cup {[by |-> "xsd", of |-> m, out |-> xsd']}
    /\ UNCHANGED <<kind, arg, res, schema, data, inst, doc, parsed>>
    /\ UNCHANGED <<lang, ann, typ, code, cacheVars>>

\* XAdapter(DataStructureModel(m)).generate_definition()
Generate(l, m) ==
    /\ Cardinality(outputs) < MaxCalls
    /\ outputs' = outputs \cup
            {[by |-> l, of |-> m, out |-> generate_definition(l, schema, m)]}
    /\ UNCHANGED <<kind, arg, res, schema, data, root, inst, doc, parsed, xsd,
                   complex_types, lang, ann, typ, code, cacheVars>>

NextGen ==
    \/ \E m \in RecIds : GenerateXsd(m)
    \/ \E l \in Emitters, m \in RecIds : Generate(l, m)

SpecGen == InitGen /\ [][NextGen]_vars

PlacesOf(n) == Declared(xsd, TypeName(NameOf(schema, n)))

\* C22: for an acyclic record graph the complexTypes come in dependency
\* order: the declaration of every record that a field of record P refers
\* to stands before the declaration of P, and the declaration of the root
\* is the last one.
C22_DependencyOrder ==
    XsdDone =>
        /\ \A p \in Reachable(schema, root) : \A n \in Targets(schema, p) :
              \E i \in PlacesOf(n) : \E j \in PlacesOf(p) : i < j
        /\ Len(xsd.cts) \in PlacesOf(root)

\* the same for record graphs whose records all have different names
C22_DistinctNamesOrdered ==
    (\A m, n \in Reachable(schema, root) :
        m # n => NameOf(schema, m) # NameOf(schema, n))
    => C22_DependencyOrder


(***************************************************************************)
(* The C++ text of CppLanguageAdapter at work: the struct Person with one  *)
(* field a of an integer kind, its to_xml and its from_xml.  The field has *)
(* the type _cpp_type_str gives the kind; int is 32 bits wide.             *)
(***************************************************************************)

\* the kinds "annotation in (int, i8, i16, i32, u8, u16, u32)" lets through
CppIntKinds == Kinds \cup {"int"}

\* width and signedness of the type _cpp_type_str gives the kind
CppBits(k) ==
    CASE k \in {"i8", "u8"} -> 8 [] k \in {"i16", "u16"} -> 16 [] OTHER -> 32

CppSigned(k) == k \in {"i8", "i16", "i32", "int"}

\* the values a field of that type holds
CppHolds(k, n) ==
    IF k = "int" THEN InRange("i32", n) ELSE InRange(k, n)

\* std::to_string(a): the decimal text of the promoted value
std_to_string(n) == IntToText(n)

\* std::stoi(str): the number the text spells, std::invalid_argument for a
\* text that spells none, std::out_of_range outside the range of int
std_stoi(text) ==
    LET r == ParseInt(text)
    IN  IF ~r.ok THEN Err("std::invalid_argument")
        ELSE IF InRange("i32", r.val.i) THEN Ok(r.val)
        ELSE Err("std::out_of_range")

\* obj.a = <int>: the conversion of an int to the type of the field
CppAssign(k, n) ==
    IF CppBits(k) = 32
    THEN (IF ~CppSigned(k) /\ n.hi < 0 THEN Big(n.hi + Base, n.lo) ELSE n)
    ELSE LET m == 2 ^ CppBits(k)
             r == n.lo % m
         IN  IF CppSigned(k) /\ 2 * r >= m THEN FromInt(r - m) ELSE Big(0, r)

\* the generated to_xml() of Person: a node per field, the value of a field
\* that is no str written by std::to_string
cpp_to_xml(k, n) ==
    Element("Person", NoText,
            <<Element("a", Text(std_to_string(n)), <<>>)>>)

\* the generated from_xml(xml_str) of Person: for a field of an integer
\* annotation, if (auto* node = root->first_node("a"))
\* obj.a = std::stoi(node->value());
cpp_from_xml(k, e) ==
    LET node == Find(e, "a")
    IN  IF node = <<>> THEN Ok(None)
        ELSE LET r == std_stoi(IF node[1].text.none THEN <<>> ELSE node[1].text.s)
             IN  IF r.ok THEN Ok(PyInt(k, CppAssign(k, r.val.i))) ELSE r

\* class Person(BaseModel): a: <kind>
OneFieldSchema(k) ==
    [r \in RecIds |->
        IF r = "r1" THEN [name |-> "Person", fields |-> MkFields(<< <<k>> >>)]
        ELSE Unused]

InitCpp ==
    /\ kind \in CppIntKinds
    /\ arg \in {a \in IntArgs : CppHolds(kind, a)}
    /\ doc = NoDoc /\ parsed = NoRes
    /\ res = NoIntRes
    /\ schema = OneFieldSchema(kind)
    /\ root = "r1" /\ xsd = NoXsd /\ complex_types = <<>>
    /\ data = NoVal /\ inst = NoVal
    /\ NoEmit /\ NoCache

\* person.to_xml() in the C++ program, person.a holding arg
CppToXml ==
    /\ doc = NoDoc
    /\ doc' = Dumped("xml", cpp_to_xml(kind, arg))
    /\ UNCHANGED <<kind, arg, res, schema, data, root, inst, parsed, xsd,
                   complex_types>>
    /\ UNCHANGED <<emitVars, cacheVars>>

\* Person::from_xml(doc) in the C++ program
CppFromXml ==
    /\ doc.fmt = "xml" /\ parsed = NoRes
    /\ parsed' = cpp_from_xml(kind, doc.body)
    /\ UNCHANGED <<kind, arg, res, schema, data, root, inst, doc, xsd,
                   complex_types>>
    /\ UNCHANGED <<emitVars, cacheVars>>

NextCpp == CppToXml \/ CppFromXml

SpecCpp == InitCpp /\ [][NextCpp]_vars

\* C23: the generated C++ from_xml reads a field of any integer kind back
\* to exactly the value the generated to_xml wrote, for every value of the
\* kind's range, u32 values above 2147483647 included.
C23_CppIntegerReadBack ==
    parsed # NoRes => (parsed.ok /\ parsed.val.k = "int" /\ parsed.val.i = arg)

\* the same for the values that lie in the range of int
C23_CppReadBackWithinInt ==
    (parsed # NoRes /\ InRange("i32", arg))
        => (parsed.ok /\ parsed.val.k = "int" /\ parsed.val.i = arg)


(***************************************************************************)
(* Documents whose list wrapper holds children of any tag: the record      *)
(* Person{a: List[c]} or Person{a: Optional[List[c]]}, a list of up to     *)
(* MaxKids different items written by a caller, each child under a tag of  *)
(* the caller's choice.                                                    *)
(***************************************************************************)
MaxKids == 3

TagItemClasses == {"str", "int", "i8", "r2"}

TagSchemas ==
    { [r \in RecIds |->
         IF r = "r1" THEN [name |-> "Person", fields |-> MkFields(<<w \o <<c>>>>)]
         ELSE IF r = "r2"
         THEN [name |-> "Address",
               fields |-> MkFields(<<<<"str">>, <<"opt", "str">>>>)]
         ELSE Unused] :
      w \in {<<"list">>, <<"opt", "list">>}, c \in TagItemClasses }

\* the tags a caller may write: the class names, the field name, any other
TagNames == {"str", "int", "i8", "Address", "a", "item"}

\* the n-th item of a list of the class c, different for every n
TagItem(c, n) ==
    CASE c = "str" -> PyStr([j \in 1..n |-> "A"])
      [] c = "r2" -> PyDict(<<Entry("a", PyStr([j \in 1..n |-> "A"])),
                              Entry("b", PyStr(<<"B">>))>>)
      [] OTHER -> PyInt("int", FromInt(n - 2))

\* the element e with the n-th child of its first child tagged tags[n]
Retagged(e, tags) ==
    Element(e.tag, e.text,
        <<Element(e.kids[1].tag, e.kids[1].text,
            [n \in 1..Len(e.kids[1].kids) |->
                Element(tags[n], e.kids[1].kids[n].text,
                        e.kids[1].kids[n].kids)])>>)

InitTags ==
    /\ schema \in TagSchemas
    /\ root = "r1"
    /\ \E k \in 0..MaxKids :
          /\ data = PyDict(<<Entry("a",
                        PyList([n \in 1..k |->
                            TagItem(BaseOf(FieldsOf(schema, "r1")[1].type), n)]))>>)
          /\ \E tags \in [1..k -> TagNames] :
                doc = Doc("xml",
                          Retagged(tostring(WriteXml(schema, "r1", "Person", data)),
                                   tags))
    /\ parsed = NoRes
    /\ inst = NoVal
    /\ kind = "i8" /\ arg = NoBig /\ res = NoIntRes
    /\ xsd = NoXsd /\ complex_types = <<>>
    /\ NoEmit /\ NoCache

NextTags == FromXml

SpecTags == InitTags /\ [][NextTags]_vars

\* the children of the list wrapper of the document at hand
WrapperKids == doc.body.kids[1].kids

\* the name of the declared element type of the list field
DeclaredItemName ==
    LET c == BaseOf(FieldsOf(schema, "r1")[1].type)
    IN  IF c \in RecIds THEN NameOf(schema, c) ELSE c

\* C24: from_xml_tree on a list wrapper with a child whose tag is not the
\* name of the declared element type raises ValueError and gives no
\* instance, wherever that child stands among the others; when every tag
\* matches, the list holds the items in document order.
C24_ListItemTagChecked ==
    parsed # NoRes =>
        IF \E n \in 1..Len(WrapperKids) : WrapperKids[n].tag # DeclaredItemName
        THEN parsed = Err("ValueError")
        ELSE /\ parsed.ok
             /\ from_native_tree(schema, root, data).ok
             /\ parsed.val = from_native_tree(schema, root, data).val
             /\ Len(parsed.val.xs[1].xs) = Len(WrapperKids)

\* three children, only the one in the middle wrongly tagged: ValueError
C24_Witness ==
    /\ Len(WrapperKids) = 3
    /\ WrapperKids[1].tag = DeclaredItemName
    /\ WrapperKids[2].tag # DeclaredItemName
    /\ WrapperKids[3].tag = DeclaredItemName
    /\ parsed = Err("ValueError")

\* three rightly tagged records have been read in document order
C24_WitnessOrder ==
    /\ Len(WrapperKids) = 3
    /\ DeclaredItemName = "Address"
    /\ parsed.ok
    /\ \A n \in 1..3 : Len(parsed.val.xs[1].xs[n].xs[1].s) = n


\* the type attribute names a generated complex type: <N>Type
NamesComplexType(type) == Len(type) = 2 /\ type[2] = "Type"

\* C25: the output of to_xsd is referentially closed: every element
\* declaration whose type is a generated complex type <N>Type, the top-level
\* element included, finds a complexType of exactly that name in the same
\* output, and no two complexTypes of one output bear the same name.
C25_ReferentiallyClosed ==
    xsd.ok =>
        /\ Declared(xsd, xsd.top.type) # {}
        /\ \A i \in 1..Len(xsd.cts) : \A j \in 1..Len(xsd.cts[i].seq) :
              NamesComplexType(xsd.cts[i].seq[j].type)
                  => Declared(xsd, xsd.cts[i].seq[j].type) # {}
        /\ \A i \in 1..Len(xsd.cts) : \A j \in 1..Len(xsd.cts) :
              xsd.cts[i].name = xsd.cts[j].name => i = j

\* an output for a record with a list of a nested record that refers to a
\* further record of its own name
C25_Witness ==
    /\ xsd.ok /\ root = "r1"
    /\ \E j \in 1..Len(FieldsOf(schema, "r1")) :
          FieldsOf(schema, "r1")[j].type = <<"list", "r2">>
    /\ "r3" \in Targets(schema, "r2")
    /\ NameOf(schema, "r2") = NameOf(schema, "r3")
    /\ Len(xsd.cts) = 2


\* two different records reachable from the root bear one name and have
\* different fields
SameNameRecords ==
    \E m, n \in Reachable(schema, root) :
        /\ m # n
        /\ NameOf(schema, m) = NameOf(schema, n)
        /\ FieldsOf(schema, m) # FieldsOf(schema, n)

\* the output has a complexType of n's name whose sequence lists the fields
\* of n: as many elements, each with the name and the type of its field
HasOwnDeclaration(n) ==
    \E i \in Declared(xsd, TypeName(NameOf(schema, n))) :
        LET fs == FieldsOf(schema, n)
            seq == xsd.cts[i].seq
        IN  /\ Len(seq) = Len(fs)
            /\ \A j \in 1..Len(fs) :
                  /\ seq[j].name = fs[j].name
                  /\ seq[j].type = ExpectedXsdType(schema, BaseOf(fs[j].type))

\* C26: when two different records reachable from the root have the same
\* name and different fields, the output of to_xsd has for each of them a
\* complexType that lists its own fields.
C26_SameNameOwnComplexType ==
    (XsdDone /\ SameNameRecords)
        => \A n \in Reachable(schema, root) : HasOwnDeclaration(n)

\* without two records of one name every reachable record has its own
C26_DistinctNamesOwnComplexType ==
    (XsdDone /\ ~SameNameRecords)
        => \A n \in Reachable(schema, root) : HasOwnDeclaration(n)


\* C27: every element declaration of a field carries minOccurs="0", be the
\* field Optional or required, scalar, nested record or list; and
\* maxOccurs="unbounded" stands on the list fields and on no other.
C27_OccursAttributes ==
    xsd.ok =>
        \A i \in 1..Len(xsd.cts) :
            LET fs == FieldsOf(schema, xsd.cts[i].of)
                seq == xsd.cts[i].seq
            IN  /\ Len(seq) = Len(fs)
                /\ \A j \in 1..Len(fs) :
                      /\ seq[j].minOccurs = "0"
                      /\ IF IsListField(fs[j].type)
                         THEN seq[j].maxOccurs = "unbounded"
                         ELSE seq[j].maxOccurs = Absent

\* an output that declares a required scalar, a required nested record, an
\* Optional field and a list field
C27_Witness ==
    /\ xsd.ok
    /\ \A t \in {<<"str">>, <<"r3">>, <<"opt", "list", "str">>, <<"list", "r2">>} :
          \E i \in 1..Len(xsd.cts) : \E j \in 1..Len(xsd.cts[i].seq) :
              /\ FieldsOf(schema, xsd.cts[i].of)[j].type = t
              /\ FieldsOf(schema, xsd.cts[i].of)[j].default =
                    (IF t[1] = "opt" THEN "None" ELSE "required")
              /\ xsd.cts[i].seq[j].minOccurs = "0"


(***************************************************************************)
(* Validity of an element against the output of to_xsd, as XML Schema      *)
(* defines it for the declarations to_xsd writes: a complexType is a       *)
(* sequence of element declarations with minOccurs 0 and maxOccurs 1 or    *)
(* unbounded, a simple type takes text and no child element.               *)
(***************************************************************************)

\* the text lies in the lexical space of the simple type
InLexicalSpace(type, text) ==
    CASE type = <<"xs:int">> ->
            /\ ~text.none
            /\ ParseInt(text.s).ok
            /\ InRange("i32", ParseInt(text.s).val.i)
      [] type = <<"xs:double">> -> ~text.none /\ ParseFloat(text.s).ok
      [] OTHER -> TRUE

\* the number of leading children tagged name
RECURSIVE LeadingRun(_, _)
LeadingRun(kids, name) ==
    IF kids = <<>> \/ kids[1].tag # name THEN 0
    ELSE 1 + LeadingRun(Tail(kids), name)

RECURSIVE ValidAgainst(_, _, _)
RECURSIVE MatchesSequence(_, _, _)

\* the children kids match the declarations seq one after another
MatchesSequence(out, kids, seq) ==
    IF seq = <<>> THEN kids = <<>>
    ELSE LET run == LeadingRun(kids, seq[1].name)
         IN  /\ (seq[1].maxOccurs = "unbounded" \/ run <= 1)
             /\ \A n \in 1..run : ValidAgainst(out, kids[n], seq[1].type)
             /\ MatchesSequence(out, SubSeq(kids, run + 1, Len(kids)), Tail(seq))

\* the element e is valid against the type named type
ValidAgainst(out, e, type) ==
    IF NamesComplexType(type)
    THEN /\ Declared(out, type) # {}
         /\ e.text.none
         /\ MatchesSequence(out, e.kids,
                out.cts[CHOOSE i \in Declared(out, type) : TRUE].seq)
    ELSE e.kids = <<>> /\ InLexicalSpace(type, e.text)

\* the document is an instance of the schema: its root is the top-level
\* element and is valid against that element's type
ValidDocument(out, e) ==
    out.ok /\ e.tag = out.top.name /\ ValidAgainst(out, e, out.top.type)

\* C28: the document to_xml makes for an instance of record R has the
\* structure to_xsd declares for R: the children written for every field,
\* list fields included, match the field's element declaration in name,
\* type and occurrence.
C28_XmlMatchesXsd ==
    XmlDumped => ValidDocument(to_xsd(schema, root, <<>>), doc.body)

\* the same for records of non-empty strings, floats and small integers
\* only, every field holding a value
C28_ScalarsMatchXsd ==
    (XmlDumped /\ NonNull(inst)
       /\ \A j \in 1..Len(inst.xs) :
             \/ inst.xs[j].cls \in {"int", "float"}
             \/ (inst.xs[j].cls = "str" /\ inst.xs[j].s # <<>>))
    => ValidDocument(to_xsd(schema, root, <<>>), doc.body)

\* a list of strings that holds an item has been written
C28_ListWritten ==
    /\ XmlDumped
    /\ Len(FieldsOf(schema, root)) = 1
    /\ FieldsOf(schema, root)[1].type = <<"list", "str">>
    /\ Len(inst.xs[1].xs) = 1


\* the element declaration to_xsd writes for the field a of
\* class Person(BaseModel): a: <k>
DeclaredFor(k) == to_xsd(OneFieldSchema(k), "r1", <<>>).cts[1].seq[1]

\* the value space of the simple type: xs:int is the signed 32-bit integers
InValueSpace(type, n) ==
    IF type = <<"xs:int">> THEN InRange("i32", n) ELSE type = <<"xs:string">>

\* C29: every value a fixed-width kind accepts lies in the value space of
\* the type to_xsd declares for a field of that kind, xs:int, u32 values up
\* to 4294967295 included.
C29_IntegerInXsdValueSpace ==
    res.ok =>
        /\ DeclaredFor(kind).type = <<"xs:int">>
        /\ InValueSpace(DeclaredFor(kind).type, res.v)

\* the same for every kind but u32
C29_NarrowKindsInXsdValueSpace ==
    (res.ok /\ kind # "u32") =>
        /\ DeclaredFor(kind).type = <<"xs:int">>
        /\ InValueSpace(DeclaredFor(kind).type, res.v)


\* field j of the root is a str field holding '' or a bool field holding
\* False
HoldsEmptyOrFalse(j) ==
    \/ (FieldsOf(schema, root)[j].type = <<"str">> /\ inst.xs[j] = PyStr(<<>>))
    \/ (FieldsOf(schema, root)[j].type = <<"bool">> /\ inst.xs[j] = PyBool(FALSE))

\* C30: a primitive value survives the XML text conversion whatever it is:
\* what from_xml(to_xml(x)) reads for a str field holding the empty string
\* is the empty string, and for a bool field holding False it is False.
C30_EmptyAndFalseSurviveXml ==
    (RoundTripped("xml") /\ parsed.ok) =>
        \A j \in 1..Len(inst.xs) :
            HoldsEmptyOrFalse(j) => parsed.val.xs[j] = inst.xs[j]

\* the same for the non-empty string and True
C30_NonEmptyAndTrueSurviveXml ==
    (RoundTripped("xml") /\ parsed.ok) =>
        \A j \in 1..Len(inst.xs) :
            (inst.xs[j] = PyStr(<<"A">>) \/ inst.xs[j] = PyBool(TRUE))
                => parsed.val.xs[j] = inst.xs[j]

====
